---- MODULE Spec2Model ----
(***************************************************************************)
(* Linked lists of graph_examples: the four list classes of                *)
(* graph_examples/linked_lists/lists.py (with their base classes in        *)
(* base_lists.py and their node classes in nodes.py / base_nodes.py), and  *)
(* the older list classes of graph_examples/__init__.py.                   *)
(*                                                                         *)
(* Objects live in a heap: a node is the index of its record in `heap`,    *)
(* a fresh node gets the next index, and nothing is ever freed (an         *)
(* unlinked node stays in the heap as garbage).  None is 0.                *)
(***************************************************************************)
EXTENDS Integers, Sequences, FiniteSets, TLC

\* ------------------------------------------------------------------ bounds
MaxLen == 3       \* longest input sequence S
MaxVal == 2       \* values are 1..MaxVal (so sequences of length 3 repeat values)
MaxOps == 3       \* longest sequence of mutating calls after construction
MaxYield == 9     \* most values taken from a generator that is advanced step by step

None == 0
Values == 1..MaxVal

RECURSIVE SeqsUpTo(_)
SeqsUpTo(n) == IF n = 0 THEN {<<>>} ELSE SeqsUpTo(n - 1) \cup [1..n -> Values]

Inputs == SeqsUpTo(MaxLen)

Linear == {"LinkedList", "DoublyLinkedList"}
Circular == {"CircularLinkedList", "CircularDoublyLinkedList"}
Doubly == {"DoublyLinkedList", "CircularDoublyLinkedList"}
Classes == Linear \cup Circular

VARIABLES
    cls,      \* the class of the list object li
    S,        \* the values li was constructed from
    heap,     \* the node objects: heap[n] = [value, next, last]
    head,     \* li.head (stored by the linear classes only; a property of the circular ones)
    tail,     \* li.tail (not stored by LinkedList)
    trace,    \* the mutating calls made on li since construction, with their results
    obs,      \* the result of the last read-only call, made on the current state of li
    gen,      \* a generator object the caller holds and advances one next() at a time
    nd        \* the node the caller holds when it works on a chain of nodes directly
              \* (the variable `node` of the tests)

vars == <<cls, S, heap, head, tail, trace, obs, gen, nd>>

\* ------------------------------------------------------------------ nodes
\* BaseLinkedNode.__init__: value and next as given.  A singly linked node
\* has no `last` attribute; its record carries None there and no list code reads it.
LinkedNode(h, value, next_) ==
    Append(h, [value |-> value, next |-> next_, last |-> None])

\* BaseDoublyLinkedNode.__init__ on top of BaseLinkedNode.__init__.
DoublyLinkedNode(h, value, next_, last) ==
    Append(h, [value |-> value, next |-> next_, last |-> last])

\* BaseCircularLinkedNode.__init__: next defaults to the node itself.
CircularLinkedNode(h, value, next_) ==
    LET self == Len(h) + 1
    IN  Append(h, [value |-> value,
                   next  |-> IF next_ # None THEN next_ ELSE self,
                   last  |-> None])

\* CircularDoublyLinkedNode.__init__: `next_ if next is not None else self`
\* tests the builtin `next`, so next_ is passed on unchanged; last defaults to
\* self; BaseDoublyLinkedNode.__init__ then reaches BaseCircularLinkedNode.__init__
\* through the MRO, which defaults next to self, and finally sets last.
CircularDoublyLinkedNode(h, value, next_, last) ==
    LET self == Len(h) + 1
    IN  Append(h, [value |-> value,
                   next  |-> IF next_ # None THEN next_ ELSE self,
                   last  |-> IF last # None THEN last ELSE self])

\* The list object as the methods see it.
Self(h, hd, tl) == [heap |-> h, head |-> hd, tail |-> tl]

\* What a call leaves behind: the object, the value returned, the exception raised.
Result(h, hd, tl, ret, err) == [heap |-> h, head |-> hd, tail |-> tl, ret |-> ret, err |-> err]

\* ----------------------------------------------------------- construction
RECURSIVE LinkedList_init_loop(_, _, _)
LinkedList_init_loop(h, node, values) ==
    IF values = <<>> THEN h
    ELSE LET h1 == LinkedNode(h, Head(values), None)
             new == Len(h1)
             h2 == [h1 EXCEPT ![node].next = new]
         IN  LinkedList_init_loop(h2, new, Tail(values))

LinkedList_init(values) ==
    IF values = <<>> THEN Self(<<>>, None, None)
    ELSE LET h1 == LinkedNode(<<>>, Head(values), None)
         IN  Self(LinkedList_init_loop(h1, 1, Tail(values)), 1, None)

RECURSIVE DoublyLinkedList_init_loop(_, _, _)
DoublyLinkedList_init_loop(h, node, values) ==
    IF values = <<>> THEN [heap |-> h, node |-> node]
    ELSE LET h1 == DoublyLinkedNode(h, Head(values), None, node)
             new == Len(h1)
             h2 == [h1 EXCEPT ![node].next = new]
         IN  DoublyLinkedList_init_loop(h2, new, Tail(values))

DoublyLinkedList_init(values) ==
    IF values = <<>> THEN Self(<<>>, None, None)
    ELSE LET h1 == DoublyLinkedNode(<<>>, Head(values), None, None)
             r == DoublyLinkedList_init_loop(h1, 1, Tail(values))
         IN  Self(r.heap, 1, r.node)

RECURSIVE CircularLinkedList_init_loop(_, _, _, _)
CircularLinkedList_init_loop(h, hd, node, values) ==
    IF values = <<>> THEN [heap |-> h, node |-> node]
    ELSE LET h1 == CircularLinkedNode(h, Head(values), hd)
             new == Len(h1)
             h2 == [h1 EXCEPT ![node].next = new]
         IN  CircularLinkedList_init_loop(h2, hd, new, Tail(values))

CircularLinkedList_init(values) ==
    IF values = <<>> THEN Self(<<>>, None, None)
    ELSE LET h1 == CircularLinkedNode(<<>>, Head(values), None)
             r == CircularLinkedList_init_loop(h1, 1, 1, Tail(values))
         IN  Self(r.heap, None, r.node)

RECURSIVE CircularDoublyLinkedList_init_loop(_, _, _, _)
CircularDoublyLinkedList_init_loop(h, hd, node, values) ==
    IF values = <<>> THEN [heap |-> h, node |-> node]
    ELSE LET h1 == CircularDoublyLinkedNode(h, Head(values), hd, node)
             new == Len(h1)
             h2 == [h1 EXCEPT ![node].next = new]
             h3 == [h2 EXCEPT ![hd].last = new]
         IN  CircularDoublyLinkedList_init_loop(h3, hd, new, Tail(values))

CircularDoublyLinkedList_init(values) ==
    IF values = <<>> THEN Self(<<>>, None, None)
    ELSE LET h1 == CircularDoublyLinkedNode(<<>>, Head(values), None, None)
             r == CircularDoublyLinkedList_init_loop(h1, 1, 1, Tail(values))
         IN  Self(r.heap, None, r.node)

\* cls(values)
Construct(c, values) ==
    CASE c = "LinkedList" -> LinkedList_init(values)
      [] c = "DoublyLinkedList" -> DoublyLinkedList_init(values)
      [] c = "CircularLinkedList" -> CircularLinkedList_init(values)
      [] c = "CircularDoublyLinkedList" -> CircularDoublyLinkedList_init(values)

\* ------------------------------------------------- read-only operations
\* Every loop below runs on a frozen heap and is deterministic in its local
\* variables, so a loop that has not ended after more steps than there are
\* nodes never ends: done = FALSE stands for a call that does not terminate.
Fuel(h) == Len(h) + 1

\* A variant of BaseLinearLinkedList.__bool__ that takes a single node for nothing.
BaseLinearLinkedList_bool_needs2(self) ==
    self.head # None /\ self.heap[self.head].next # None

BaseLinearLinkedList_bool(self) == self.head # None

BaseCircularLinkedList_bool(self) == self.tail # None

bool(c, self) ==
    IF c \in Linear THEN BaseLinearLinkedList_bool(self)
    ELSE BaseCircularLinkedList_bool(self)

\* The head property of both circular classes: self.tail.next
CircularLinkedList_head(self) == self.heap[self.tail].next

CircularDoublyLinkedList_head(self) == self.heap[self.tail].next

\* The head setter of CircularLinkedList: self.tail.next = node
CircularLinkedList_head_set(self, node) ==
    [self EXCEPT !.heap[self.tail].next = node]

RECURSIVE BaseLinearLinkedList_len_loop(_, _, _, _)
BaseLinearLinkedList_len_loop(h, node, length, fuel) ==
    IF node = None THEN [ret |-> length, done |-> TRUE]
    ELSE IF fuel = 0 THEN [ret |-> length, done |-> FALSE]
    ELSE BaseLinearLinkedList_len_loop(h, h[node].next, length + 1, fuel - 1)

BaseLinearLinkedList_len(self) ==
    BaseLinearLinkedList_len_loop(self.heap, self.head, 0, Fuel(self.heap))

RECURSIVE BaseCircularLinkedList_len_loop(_, _, _, _, _)
BaseCircularLinkedList_len_loop(h, tl, node, length, fuel) ==
    IF node = tl THEN [ret |-> length, done |-> TRUE]
    ELSE IF fuel = 0 THEN [ret |-> length, done |-> FALSE]
    ELSE BaseCircularLinkedList_len_loop(h, tl, h[node].next, length + 1, fuel - 1)

\* A variant of BaseCircularLinkedList.__len__ that starts counting at 0.
BaseCircularLinkedList_len_from0(self) ==
    IF ~BaseCircularLinkedList_bool(self) THEN [ret |-> 0, done |-> TRUE]
    ELSE BaseCircularLinkedList_len_loop(self.heap, self.tail, CircularLinkedList_head(self),
                                         0, Fuel(self.heap))

BaseCircularLinkedList_len(self) ==
    IF ~BaseCircularLinkedList_bool(self) THEN [ret |-> 0, done |-> TRUE]
    ELSE BaseCircularLinkedList_len_loop(self.heap, self.tail, CircularLinkedList_head(self),
                                         1, Fuel(self.heap))

len(c, self) ==
    IF c \in Linear THEN BaseLinearLinkedList_len(self)
    ELSE BaseCircularLinkedList_len(self)

\* A generator object: where it is suspended (pc), and its locals.
\*   "start"  created, not yet advanced
\*   "yield"  suspended at a yield whose value came from node g.node
\*   "done"   returned
NewGenerator == [pc |-> "start", node |-> None, head |-> None]

Yielded(g, node, h) == [g |-> [g EXCEPT !.pc = "yield", !.node = node],
                        value |-> h[node].value, node |-> node]

Returned(g) == [g |-> [g EXCEPT !.pc = "done"], value |-> None, node |-> None]

\* One next() on a generator made by BaseLinearLinkedList.__iter__
BaseLinearLinkedList_iter(self, g) ==
    LET node == IF g.pc = "start" THEN self.head ELSE self.heap[g.node].next
    IN  IF g.pc = "done" THEN Returned(g)
        ELSE IF node # None THEN Yielded(g, node, self.heap)
        ELSE Returned(g)

\* A variant of BaseCircularLinkedList.__iter__ that detects the end of the lap
\* by the value of the starting node instead of its identity.
BaseCircularLinkedList_iter_byvalue(self, g) ==
    IF g.pc = "done" THEN Returned(g)
    ELSE IF g.pc = "start" THEN
        IF ~BaseCircularLinkedList_bool(self) THEN Returned(g)
        ELSE LET hd == CircularLinkedList_head(self)
             IN  Yielded([g EXCEPT !.head = hd], hd, self.heap)
    ELSE LET node == self.heap[g.node].next
         IN  IF self.heap[node].value # self.heap[g.head].value
             THEN Yielded(g, node, self.heap)
             ELSE Returned(g)

\* A variant of BaseCircularLinkedList.__iter__ whose loop compares with the
\* list's head as it is at each step instead of the head it started from.
BaseCircularLinkedList_iter_livehead(self, g) ==
    IF g.pc = "done" THEN Returned(g)
    ELSE IF g.pc = "start" THEN
        IF ~BaseCircularLinkedList_bool(self) THEN Returned(g)
        ELSE LET hd == CircularLinkedList_head(self)
             IN  Yielded([g EXCEPT !.head = hd], hd, self.heap)
    ELSE LET node == self.heap[g.node].next
             hd == IF self.tail = None THEN g.head ELSE CircularLinkedList_head(self)
         IN  IF node # hd THEN Yielded(g, node, self.heap)
             ELSE Returned(g)

\* One next() on a generator made by BaseCircularLinkedList.__iter__
\* (the first yield is head's, after which the loop starts at head.next)
BaseCircularLinkedList_iter(self, g) ==
    IF g.pc = "done" THEN Returned(g)
    ELSE IF g.pc = "start" THEN
        IF ~BaseCircularLinkedList_bool(self) THEN Returned(g)
        ELSE LET hd == CircularLinkedList_head(self)
             IN  Yielded([g EXCEPT !.head = hd], hd, self.heap)
    ELSE LET node == self.heap[g.node].next
         IN  IF node # g.head THEN Yielded(g, node, self.heap)
             ELSE Returned(g)

iter(c, self, g) ==
    IF c \in Linear THEN BaseLinearLinkedList_iter(self, g)
    ELSE BaseCircularLinkedList_iter(self, g)

\* list(li): advance a fresh generator until it returns, collecting what it yields
\* (and, for the record, the nodes the values came from).
RECURSIVE list_loop(_, _, _, _, _, _)
list_loop(c, self, g, out, nodes, fuel) ==
    LET r == iter(c, self, g)
    IN  IF r.g.pc = "done" THEN [out |-> out, nodes |-> nodes, done |-> TRUE]
        ELSE IF fuel = 0 THEN [out |-> out, nodes |-> nodes, done |-> FALSE]
        ELSE list_loop(c, self, r.g, Append(out, r.value), Append(nodes, r.node), fuel - 1)

list(c, self) == list_loop(c, self, NewGenerator, <<>>, <<>>, Fuel(self.heap))

\* A variant of BaseCircularLinkedList.infinite_iterator that starts at the tail.
BaseCircularLinkedList_infinite_iterator_fromtail(self, g) ==
    IF g.pc = "done" THEN Returned(g)
    ELSE IF g.pc = "start" THEN
        IF ~BaseCircularLinkedList_bool(self) THEN Returned(g)
        ELSE Yielded(g, self.tail, self.heap)
    ELSE Yielded(g, self.heap[g.node].next, self.heap)

\* One next() on a generator made by BaseCircularLinkedList.infinite_iterator
BaseCircularLinkedList_infinite_iterator(self, g) ==
    IF g.pc = "done" THEN Returned(g)
    ELSE IF g.pc = "start" THEN
        IF ~BaseCircularLinkedList_bool(self) THEN Returned(g)
        ELSE Yielded(g, CircularLinkedList_head(self), self.heap)
    ELSE Yielded(g, self.heap[g.node].next, self.heap)

\* One next() on a generator made by DoublyLinkedList.__reversed__
DoublyLinkedList_reversed(self, g) ==
    LET node == IF g.pc = "start" THEN self.tail ELSE self.heap[g.node].last
    IN  IF g.pc = "done" THEN Returned(g)
        ELSE IF node # None THEN Yielded(g, node, self.heap)
        ELSE Returned(g)

\* A variant of CircularDoublyLinkedList.__reversed__ without the yield of the
\* tail's value before the loop.
CircularDoublyLinkedList_reversed_skiptail(self, g) ==
    IF g.pc = "done" THEN Returned(g)
    ELSE IF g.pc = "start" /\ ~BaseCircularLinkedList_bool(self) THEN Returned(g)
    ELSE LET node == IF g.pc = "start" THEN self.heap[self.tail].last
                     ELSE self.heap[g.node].last
         IN  IF node # self.tail THEN Yielded(g, node, self.heap)
             ELSE Returned(g)

\* One next() on a generator made by CircularDoublyLinkedList.__reversed__
\* (the first yield is the tail's, after which the loop starts at tail.last
\* and compares with self.tail as it is when the generator is resumed)
CircularDoublyLinkedList_reversed(self, g) ==
    IF g.pc = "done" THEN Returned(g)
    ELSE IF g.pc = "start" THEN
        IF ~BaseCircularLinkedList_bool(self) THEN Returned(g)
        ELSE Yielded(g, self.tail, self.heap)
    ELSE LET node == self.heap[g.node].last
         IN  IF node # self.tail THEN Yielded(g, node, self.heap)
             ELSE Returned(g)

reversed(c, self, g) ==
    CASE c = "DoublyLinkedList" -> DoublyLinkedList_reversed(self, g)
      [] c = "CircularDoublyLinkedList" -> CircularDoublyLinkedList_reversed(self, g)

\* list(reversed(li))
RECURSIVE list_reversed_loop(_, _, _, _, _, _)
list_reversed_loop(c, self, g, out, nodes, fuel) ==
    LET r == reversed(c, self, g)
    IN  IF r.g.pc = "done" THEN [out |-> out, nodes |-> nodes, done |-> TRUE]
        ELSE IF fuel = 0 THEN [out |-> out, nodes |-> nodes, done |-> FALSE]
        ELSE list_reversed_loop(c, self, r.g, Append(out, r.value), Append(nodes, r.node),
                                fuel - 1)

list_reversed(c, self) ==
    list_reversed_loop(c, self, NewGenerator, <<>>, <<>>, Fuel(self.heap))

RECURSIVE BaseLinearLinkedList_contains_loop(_, _, _, _)
BaseLinearLinkedList_contains_loop(h, node, value, fuel) ==
    IF node = None THEN [ret |-> FALSE, done |-> TRUE]
    ELSE IF fuel = 0 THEN [ret |-> FALSE, done |-> FALSE]
    ELSE IF h[node].value = value THEN [ret |-> TRUE, done |-> TRUE]
    ELSE BaseLinearLinkedList_contains_loop(h, h[node].next, value, fuel - 1)

BaseLinearLinkedList_contains(self, value) ==
    BaseLinearLinkedList_contains_loop(self.heap, self.head, value, Fuel(self.heap))

\* The loop of BaseCircularLinkedList.__contains__; found = FALSE when it ends
\* at the tail without a match.
RECURSIVE BaseCircularLinkedList_contains_loop(_, _, _, _, _)
BaseCircularLinkedList_contains_loop(h, tl, node, value, fuel) ==
    IF node = tl THEN [found |-> FALSE, done |-> TRUE]
    ELSE IF fuel = 0 THEN [found |-> FALSE, done |-> FALSE]
    ELSE IF h[node].value = value THEN [found |-> TRUE, done |-> TRUE]
    ELSE BaseCircularLinkedList_contains_loop(h, tl, h[node].next, value, fuel - 1)

\* A variant of BaseCircularLinkedList.__contains__ that returns False after the loop.
BaseCircularLinkedList_contains_notail(self, value) ==
    IF ~BaseCircularLinkedList_bool(self) THEN [ret |-> FALSE, done |-> TRUE]
    ELSE LET r == BaseCircularLinkedList_contains_loop(self.heap, self.tail,
                      CircularLinkedList_head(self), value, Fuel(self.heap))
         IN  [ret |-> r.found, done |-> r.done]

BaseCircularLinkedList_contains(self, value) ==
    IF ~BaseCircularLinkedList_bool(self) THEN [ret |-> FALSE, done |-> TRUE]
    ELSE LET r == BaseCircularLinkedList_contains_loop(self.heap, self.tail,
                      CircularLinkedList_head(self), value, Fuel(self.heap))
         IN  IF r.found \/ ~r.done THEN [ret |-> r.found, done |-> r.done]
             ELSE [ret |-> self.heap[self.tail].value = value, done |-> TRUE]

contains(c, self, value) ==
    IF c \in Linear THEN BaseLinearLinkedList_contains(self, value)
    ELSE BaseCircularLinkedList_contains(self, value)

\* --------------------------------------------------- LinkedList (lists.py)
LinkedList_appendleft(self, value) ==
    LET h1 == LinkedNode(self.heap, value, self.head)
    IN  Result(h1, Len(h1), self.tail, None, "ok")

\* A variant of LinkedList.popleft that returns None on an empty list.
LinkedList_popleft_silent(self) ==
    IF ~BaseLinearLinkedList_bool(self)
    THEN Result(self.heap, self.head, self.tail, None, "ok")
    ELSE LET node == self.head
         IN  Result(self.heap, self.heap[node].next, self.tail, self.heap[node].value, "ok")

LinkedList_popleft(self) ==
    IF ~BaseLinearLinkedList_bool(self)
    THEN Result(self.heap, self.head, self.tail, None, "IndexError")
    ELSE LET node == self.head
         IN  Result(self.heap, self.heap[node].next, self.tail, self.heap[node].value, "ok")

\* while node is not None: node.next, last_node, node = last_node, node, node.next
RECURSIVE LinkedList_reverse_loop(_, _, _, _)
LinkedList_reverse_loop(h, node, last_node, fuel) ==
    IF node = None THEN [heap |-> h, last_node |-> last_node, done |-> TRUE]
    ELSE IF fuel = 0 THEN [heap |-> h, last_node |-> last_node, done |-> FALSE]
    ELSE LinkedList_reverse_loop([h EXCEPT ![node].next = last_node], h[node].next, node, fuel - 1)

\* A variant of LinkedList.reverse whose loop starts with last_node = head
\* instead of None.
LinkedList_reverse_fromhead(self) ==
    LET r == LinkedList_reverse_loop(self.heap, self.head, self.head, Fuel(self.heap))
    IN  Result(r.heap, r.last_node, self.tail, None, IF r.done THEN "ok" ELSE "hang")

LinkedList_reverse(self) ==
    LET r == LinkedList_reverse_loop(self.heap, self.head, None, Fuel(self.heap))
    IN  Result(r.heap, r.last_node, self.tail, None, IF r.done THEN "ok" ELSE "hang")

\* --------------------------------------------- DoublyLinkedList (lists.py)
DoublyLinkedList_append(self, value) ==
    LET old_tail == self.tail
        h1 == DoublyLinkedNode(self.heap, value, None, old_tail)
        new == Len(h1)
    IN  IF old_tail = None
        THEN Result(h1, new, new, None, "ok")
        ELSE Result([h1 EXCEPT ![old_tail].next = new], self.head, new, None, "ok")

\* A variant of DoublyLinkedList.appendleft that does not set the old head's last.
DoublyLinkedList_appendleft_nolast(self, value) ==
    LET old_head == self.head
        h1 == DoublyLinkedNode(self.heap, value, old_head, None)
        new == Len(h1)
    IN  IF old_head = None
        THEN Result(h1, new, new, None, "ok")
        ELSE Result(h1, new, self.tail, None, "ok")

DoublyLinkedList_appendleft(self, value) ==
    LET old_head == self.head
        h1 == DoublyLinkedNode(self.heap, value, old_head, None)
        new == Len(h1)
    IN  IF old_head = None
        THEN Result(h1, new, new, None, "ok")
        ELSE Result([h1 EXCEPT ![old_head].last = new], new, self.tail, None, "ok")

\* A variant of DoublyLinkedList.pop that leaves head alone when the last node goes.
DoublyLinkedList_pop_keephead(self) ==
    IF ~BaseLinearLinkedList_bool(self)
    THEN Result(self.heap, self.head, self.tail, None, "IndexError")
    ELSE LET old_tail == self.tail
             tl == self.heap[old_tail].last
             value == self.heap[old_tail].value
         IN  IF tl = None
             THEN Result(self.heap, self.head, tl, value, "ok")
             ELSE Result([self.heap EXCEPT ![tl].next = None], self.head, tl, value, "ok")

DoublyLinkedList_pop(self) ==
    IF ~BaseLinearLinkedList_bool(self)
    THEN Result(self.heap, self.head, self.tail, None, "IndexError")
    ELSE LET old_tail == self.tail
             tl == self.heap[old_tail].last
             value == self.heap[old_tail].value
         IN  IF tl = None
             THEN Result(self.heap, None, tl, value, "ok")
             ELSE Result([self.heap EXCEPT ![tl].next = None], self.head, tl, value, "ok")

\* A variant of DoublyLinkedList.popleft that leaves tail alone when the last
\* node goes.
DoublyLinkedList_popleft_keeptail(self) ==
    IF ~BaseLinearLinkedList_bool(self)
    THEN Result(self.heap, self.head, self.tail, None, "IndexError")
    ELSE LET old_head == self.head
             hd == self.heap[old_head].next
             value == self.heap[old_head].value
         IN  IF hd = None
             THEN Result(self.heap, hd, self.tail, value, "ok")
             ELSE Result([self.heap EXCEPT ![hd].last = None], hd, self.tail, value, "ok")

DoublyLinkedList_popleft(self) ==
    IF ~BaseLinearLinkedList_bool(self)
    THEN Result(self.heap, self.head, self.tail, None, "IndexError")
    ELSE LET old_head == self.head
             hd == self.heap[old_head].next
             value == self.heap[old_head].value
         IN  IF hd = None
             THEN Result(self.heap, hd, None, value, "ok")
             ELSE Result([self.heap EXCEPT ![hd].last = None], hd, self.tail, value, "ok")

\* while node is not None: node.next, node.last, node = node.last, node.next, node.next
RECURSIVE DoublyLinkedList_reverse_loop(_, _, _)
DoublyLinkedList_reverse_loop(h, node, fuel) ==
    IF node = None THEN [heap |-> h, done |-> TRUE]
    ELSE IF fuel = 0 THEN [heap |-> h, done |-> FALSE]
    ELSE DoublyLinkedList_reverse_loop(
             [h EXCEPT ![node].next = h[node].last, ![node].last = h[node].next],
             h[node].next, fuel - 1)

\* A variant of DoublyLinkedList.reverse that does not swap head and tail.
DoublyLinkedList_reverse_noswap(self) ==
    LET r == DoublyLinkedList_reverse_loop(self.heap, self.head, Fuel(self.heap))
    IN  Result(r.heap, self.head, self.tail, None, IF r.done THEN "ok" ELSE "hang")

DoublyLinkedList_reverse(self) ==
    LET r == DoublyLinkedList_reverse_loop(self.heap, self.head, Fuel(self.heap))
    IN  Result(r.heap, self.tail, self.head, None, IF r.done THEN "ok" ELSE "hang")

\* ------------------------------------------- CircularLinkedList (lists.py)
\* A variant of CircularLinkedList.appendleft that also makes the new node the tail.
CircularLinkedList_appendleft_astail(self, value) ==
    IF ~BaseCircularLinkedList_bool(self)
    THEN LET h1 == CircularLinkedNode(self.heap, value, None)
         IN  Result(h1, self.head, Len(h1), None, "ok")
    ELSE LET h1 == CircularLinkedNode(self.heap, value, CircularLinkedList_head(self))
             s1 == CircularLinkedList_head_set([self EXCEPT !.heap = h1], Len(h1))
         IN  Result(s1.heap, s1.head, Len(h1), None, "ok")

\* A variant of CircularLinkedList.appendleft that does not pass the head to
\* the new node, which then links to itself.
CircularLinkedList_appendleft_selflinked(self, value) ==
    IF ~BaseCircularLinkedList_bool(self)
    THEN LET h1 == CircularLinkedNode(self.heap, value, None)
         IN  Result(h1, self.head, Len(h1), None, "ok")
    ELSE LET h1 == CircularLinkedNode(self.heap, value, None)
             s1 == CircularLinkedList_head_set([self EXCEPT !.heap = h1], Len(h1))
         IN  Result(s1.heap, s1.head, s1.tail, None, "ok")

CircularLinkedList_appendleft(self, value) ==
    IF ~BaseCircularLinkedList_bool(self)
    THEN LET h1 == CircularLinkedNode(self.heap, value, None)
         IN  Result(h1, self.head, Len(h1), None, "ok")
    ELSE LET h1 == CircularLinkedNode(self.heap, value, CircularLinkedList_head(self))
             s1 == CircularLinkedList_head_set([self EXCEPT !.heap = h1], Len(h1))
         IN  Result(s1.heap, s1.head, s1.tail, None, "ok")

\* A variant of BaseCircularLinkedList.popleft without the single-node case.
BaseCircularLinkedList_popleft_nolast(self) ==
    IF ~BaseCircularLinkedList_bool(self)
    THEN Result(self.heap, self.head, self.tail, None, "IndexError")
    ELSE LET hd == CircularLinkedList_head(self)
             value == self.heap[hd].value
             s1 == CircularLinkedList_head_set(self, self.heap[hd].next)
         IN  Result(s1.heap, s1.head, s1.tail, value, "ok")

\* BaseCircularLinkedList.popleft, inherited by CircularLinkedList
BaseCircularLinkedList_popleft(self) ==
    IF ~BaseCircularLinkedList_bool(self)
    THEN Result(self.heap, self.head, self.tail, None, "IndexError")
    ELSE LET hd == CircularLinkedList_head(self)
             value == self.heap[hd].value
         IN  IF self.tail = hd
             THEN Result(self.heap, self.head, None, value, "ok")
             ELSE LET s1 == CircularLinkedList_head_set(self, self.heap[hd].next)
                  IN  Result(s1.heap, s1.head, s1.tail, value, "ok")

\* while node is not self.tail: node.next, last_node, node = last_node, node, node.next
RECURSIVE CircularLinkedList_reverse_loop(_, _, _, _, _)
CircularLinkedList_reverse_loop(h, tl, node, last_node, fuel) ==
    IF node = tl THEN [heap |-> h, last_node |-> last_node, done |-> TRUE]
    ELSE IF fuel = 0 THEN [heap |-> h, last_node |-> last_node, done |-> FALSE]
    ELSE CircularLinkedList_reverse_loop([h EXCEPT ![node].next = last_node], tl,
                                         h[node].next, node, fuel - 1)

\* A variant of CircularLinkedList.reverse that does not move the tail.
CircularLinkedList_reverse_keeptail(self) ==
    IF ~BaseCircularLinkedList_bool(self)
    THEN Result(self.heap, self.head, self.tail, None, "ok")
    ELSE LET r == CircularLinkedList_reverse_loop(self.heap, self.tail,
                      CircularLinkedList_head(self), self.tail, Fuel(self.heap))
             h1 == [r.heap EXCEPT ![self.tail].next = r.last_node]
         IN  Result(h1, self.head, self.tail, None, IF r.done THEN "ok" ELSE "hang")

\* after the loop: self.tail.next, self.tail = last_node, self.head
\* (the right-hand side reads self.head before self.tail.next is assigned)
CircularLinkedList_reverse(self) ==
    IF ~BaseCircularLinkedList_bool(self)
    THEN Result(self.heap, self.head, self.tail, None, "ok")
    ELSE LET r == CircularLinkedList_reverse_loop(self.heap, self.tail,
                      CircularLinkedList_head(self), self.tail, Fuel(self.heap))
             hd == CircularLinkedList_head([self EXCEPT !.heap = r.heap])
             h1 == [r.heap EXCEPT ![self.tail].next = r.last_node]
         IN  Result(h1, self.head, hd, None, IF r.done THEN "ok" ELSE "hang")

\* ------------------------------------- CircularDoublyLinkedList (lists.py)
\* A variant of CircularDoublyLinkedList.append that does not link the old tail
\* to the new one.
CircularDoublyLinkedList_append_nolink(self, value) ==
    IF ~BaseCircularLinkedList_bool(self)
    THEN LET h1 == CircularDoublyLinkedNode(self.heap, value, None, None)
         IN  Result(h1, self.head, Len(h1), None, "ok")
    ELSE LET h1 == CircularDoublyLinkedNode(self.heap, value,
                       CircularDoublyLinkedList_head(self), self.tail)
             tl == Len(h1)
             hd == CircularDoublyLinkedList_head(Self(h1, self.head, tl))
             h3 == [h1 EXCEPT ![hd].last = tl]
         IN  Result(h3, self.head, tl, None, "ok")

CircularDoublyLinkedList_append(self, value) ==
    IF ~BaseCircularLinkedList_bool(self)
    THEN LET h1 == CircularDoublyLinkedNode(self.heap, value, None, None)
         IN  Result(h1, self.head, Len(h1), None, "ok")
    ELSE LET h1 == CircularDoublyLinkedNode(self.heap, value,
                       CircularDoublyLinkedList_head(self), self.tail)
             tl == Len(h1)
             \* self.tail.last.next = self.tail
             h2 == [h1 EXCEPT ![h1[tl].last].next = tl]
             \* self.head.last = self.tail
             hd == CircularDoublyLinkedList_head(Self(h2, self.head, tl))
             h3 == [h2 EXCEPT ![hd].last = tl]
         IN  Result(h3, self.head, tl, None, "ok")

CircularDoublyLinkedList_appendleft(self, value) ==
    IF ~BaseCircularLinkedList_bool(self)
    THEN LET h1 == CircularDoublyLinkedNode(self.heap, value, None, None)
         IN  Result(h1, self.head, Len(h1), None, "ok")
    ELSE LET h1 == CircularDoublyLinkedNode(self.heap, value,
                       CircularDoublyLinkedList_head(self), self.tail)
             \* self.tail.next = <the new node>
             h2 == [h1 EXCEPT ![self.tail].next = Len(h1)]
             \* self.head.next.last = self.tail.next
             hd == CircularDoublyLinkedList_head(Self(h2, self.head, self.tail))
             h3 == [h2 EXCEPT ![h2[hd].next].last = h2[self.tail].next]
         IN  Result(h3, self.head, self.tail, None, "ok")

\* self.tail.last.next, self.head.last, self.tail = self.head, self.tail.last, self.tail.last
\* (right-hand side first, then the targets left to right)
CircularDoublyLinkedList_pop(self) ==
    IF ~BaseCircularLinkedList_bool(self)
    THEN Result(self.heap, self.head, self.tail, None, "IndexError")
    ELSE LET value == self.heap[self.tail].value
         IN  IF self.tail = CircularDoublyLinkedList_head(self)
             THEN Result(self.heap, self.head, None, value, "ok")
             ELSE LET r1 == CircularDoublyLinkedList_head(self)
                      r2 == self.heap[self.tail].last
                      h1 == [self.heap EXCEPT ![self.heap[self.tail].last].next = r1]
                      hd == CircularDoublyLinkedList_head(Self(h1, self.head, self.tail))
                      h2 == [h1 EXCEPT ![hd].last = r2]
                  IN  Result(h2, self.head, r2, value, "ok")

\* A variant of CircularDoublyLinkedList.popleft that returns the tail's value
\* instead of the head's.
CircularDoublyLinkedList_popleft_tailvalue(self) ==
    IF ~BaseCircularLinkedList_bool(self)
    THEN Result(self.heap, self.head, self.tail, None, "IndexError")
    ELSE LET value == self.heap[self.tail].value
         IN  IF self.tail = CircularDoublyLinkedList_head(self)
             THEN Result(self.heap, self.head, None, value, "ok")
             ELSE LET h1 == [self.heap EXCEPT
                                ![self.tail].next = self.heap[self.heap[self.tail].next].next]
                      h2 == [h1 EXCEPT ![h1[self.tail].next].last = self.tail]
                  IN  Result(h2, self.head, self.tail, value, "ok")

CircularDoublyLinkedList_popleft(self) ==
    IF ~BaseCircularLinkedList_bool(self)
    THEN Result(self.heap, self.head, self.tail, None, "IndexError")
    ELSE LET value == self.heap[CircularDoublyLinkedList_head(self)].value
         IN  IF self.tail = CircularDoublyLinkedList_head(self)
             THEN Result(self.heap, self.head, None, value, "ok")
             ELSE LET \* self.tail.next = self.tail.next.next
                      h1 == [self.heap EXCEPT
                                ![self.tail].next = self.heap[self.heap[self.tail].next].next]
                      \* self.tail.next.last = self.tail
                      h2 == [h1 EXCEPT ![h1[self.tail].next].last = self.tail]
                  IN  Result(h2, self.head, self.tail, value, "ok")

\* while node is not self.tail: node.next, node.last, node = node.last, node.next, node.next
RECURSIVE CircularDoublyLinkedList_reverse_loop(_, _, _, _)
CircularDoublyLinkedList_reverse_loop(h, tl, node, fuel) ==
    IF node = tl THEN [heap |-> h, done |-> TRUE]
    ELSE IF fuel = 0 THEN [heap |-> h, done |-> FALSE]
    ELSE CircularDoublyLinkedList_reverse_loop(
             [h EXCEPT ![node].next = h[node].last, ![node].last = h[node].next],
             tl, h[node].next, fuel - 1)

\* after the loop:
\* self.tail.next, self.tail.last, self.tail = self.tail.last, self.tail.next, self.tail.next
CircularDoublyLinkedList_reverse(self) ==
    IF ~BaseCircularLinkedList_bool(self)
    THEN Result(self.heap, self.head, self.tail, None, "ok")
    ELSE LET r == CircularDoublyLinkedList_reverse_loop(self.heap, self.tail,
                      CircularDoublyLinkedList_head(self), Fuel(self.heap))
             tl == self.tail
             h1 == [r.heap EXCEPT ![tl].next = r.heap[tl].last, ![tl].last = r.heap[tl].next]
         IN  Result(h1, self.head, r.heap[tl].next, None, IF r.done THEN "ok" ELSE "hang")

\* ------------------------------------------------------- method dispatch
appendleft(c, self, value) ==
    CASE c = "LinkedList" -> LinkedList_appendleft(self, value)
      [] c = "DoublyLinkedList" -> DoublyLinkedList_appendleft(self, value)
      [] c = "CircularLinkedList" -> CircularLinkedList_appendleft(self, value)
      [] c = "CircularDoublyLinkedList" -> CircularDoublyLinkedList_appendleft(self, value)

popleft(c, self) ==
    CASE c = "LinkedList" -> LinkedList_popleft(self)
      [] c = "DoublyLinkedList" -> DoublyLinkedList_popleft(self)
      [] c = "CircularLinkedList" -> BaseCircularLinkedList_popleft(self)
      [] c = "CircularDoublyLinkedList" -> CircularDoublyLinkedList_popleft(self)

reverse(c, self) ==
    CASE c = "LinkedList" -> LinkedList_reverse(self)
      [] c = "DoublyLinkedList" -> DoublyLinkedList_reverse(self)
      [] c = "CircularLinkedList" -> CircularLinkedList_reverse(self)
      [] c = "CircularDoublyLinkedList" -> CircularDoublyLinkedList_reverse(self)

append(c, self, value) ==
    CASE c = "DoublyLinkedList" -> DoublyLinkedList_append(self, value)
      [] c = "CircularDoublyLinkedList" -> CircularDoublyLinkedList_append(self, value)

pop(c, self) ==
    CASE c = "DoublyLinkedList" -> DoublyLinkedList_pop(self)
      [] c = "CircularDoublyLinkedList" -> CircularDoublyLinkedList_pop(self)

\* ------------------------------------------------------------ the program
li == Self(heap, head, tail)

NoObs == [op |-> "none", arg |-> None, out |-> <<>>, nodes |-> <<>>, n |-> 0, done |-> TRUE]

\* A read-only call observed: what was called with what, the values it produced
\* (out, from the nodes `nodes`) or the number it returned (n; True is 1 and
\* False is 0), and whether it terminated.
Obs(op, arg, out, nodes, n, done) ==
    [op |-> op, arg |-> arg, out |-> out, nodes |-> nodes, n |-> n, done |-> done]

\* No generator held.
NoGen == [kind |-> "none", g |-> NewGenerator, out |-> <<>>]

\* One logged call: what was called with what, whether li was truthy when it was
\* called, and the value it returned or the exception it raised.
Call(op, arg, truthy, r) ==
    [op |-> op, arg |-> arg, truthy |-> truthy, ret |-> r.ret, err |-> r.err]

Init ==
    /\ cls \in Classes
    /\ S \in Inputs
    /\ heap = Construct(cls, S).heap
    /\ head = Construct(cls, S).head
    /\ tail = Construct(cls, S).tail
    /\ trace = <<>>
    /\ obs = NoObs
    /\ gen = NoGen
    /\ nd = None

\* A mutating call: the object becomes what the call leaves, the call is logged,
\* and what was read before no longer describes the list.
Mutate(op, arg, truthy, r) ==
    /\ Len(trace) < MaxOps
    /\ heap' = r.heap
    /\ head' = r.head
    /\ tail' = r.tail
    /\ trace' = Append(trace, Call(op, arg, truthy, r))
    /\ obs' = NoObs
    /\ UNCHANGED <<cls, S, gen, nd>>

DoAppendleft == \E x \in Values : Mutate("appendleft", x, bool(cls, li), appendleft(cls, li, x))

DoAppend == cls \in Doubly /\ \E x \in Values : Mutate("append", x, bool(cls, li), append(cls, li, x))

DoPopleft == Mutate("popleft", None, bool(cls, li), popleft(cls, li))

DoPop == cls \in Doubly /\ Mutate("pop", None, bool(cls, li), pop(cls, li))

DoReverse == Mutate("reverse", None, bool(cls, li), reverse(cls, li))

\* list(li)
DoList ==
    /\ LET r == list(cls, li)
       IN  obs' = Obs("list", None, r.out, r.nodes, 0, r.done)
    /\ UNCHANGED <<cls, S, heap, head, tail, trace, gen, nd>>

\* len(li)
DoLen ==
    /\ LET r == len(cls, li)
       IN  obs' = Obs("len", None, <<>>, <<>>, r.ret, r.done)
    /\ UNCHANGED <<cls, S, heap, head, tail, trace, gen, nd>>

\* bool(li)
DoBool ==
    /\ obs' = Obs("bool", None, <<>>, <<>>, IF bool(cls, li) THEN 1 ELSE 0, TRUE)
    /\ UNCHANGED <<cls, S, heap, head, tail, trace, gen, nd>>

Next ==
    \/ DoAppendleft
    \/ DoAppend
    \/ DoPopleft
    \/ DoPop
    \/ DoReverse
    \/ DoList
    \/ DoLen
    \/ DoBool

Spec == Init /\ [][Next]_vars

\* ------------------------------------------- reading a constructed list
\* A value equal to no element of any list (the object() of the tests).
Absent == MaxVal + 1

\* list(reversed(li))
DoReversed ==
    /\ cls \in Doubly
    /\ LET r == list_reversed(cls, li)
       IN  obs' = Obs("reversed", None, r.out, r.nodes, 0, r.done)
    /\ UNCHANGED <<cls, S, heap, head, tail, trace, gen, nd>>

\* v in li
DoContains ==
    \E v \in Values \cup {Absent} :
        /\ LET r == contains(cls, li, v)
           IN  obs' = Obs("contains", v, <<>>, <<>>, IF r.ret THEN 1 ELSE 0, r.done)
        /\ UNCHANGED <<cls, S, heap, head, tail, trace, gen, nd>>

\* gen = li.infinite_iterator(): nothing of the body runs before the first next()
DoInfiniteIterator ==
    /\ cls \in Circular
    /\ gen = NoGen
    /\ gen' = [kind |-> "infinite_iterator", g |-> NewGenerator, out |-> <<>>]
    /\ UNCHANGED <<cls, S, heap, head, tail, trace, obs, nd>>

\* gen = iter(li), gen = reversed(li): a generator the caller advances step by
\* step, and may abandon
DoIter ==
    \E kind \in {"iter", "reversed"} :
        /\ kind = "reversed" => cls \in Doubly
        /\ gen = NoGen
        /\ gen' = [kind |-> kind, g |-> NewGenerator, out |-> <<>>]
        /\ UNCHANGED <<cls, S, heap, head, tail, trace, obs, nd>>

\* One next() on the generator gen.
advance(c, self, kind, g) ==
    CASE kind = "infinite_iterator" -> BaseCircularLinkedList_infinite_iterator(self, g)
      [] kind = "iter" -> iter(c, self, g)
      [] kind = "reversed" -> reversed(c, self, g)

\* A variant of next(gen) in which the generator uses the list's own entry
\* reference as its cursor.
DoNext_cursor ==
    /\ gen.kind # "none"
    /\ gen.g.pc # "done"
    /\ Len(gen.out) < MaxYield
    /\ LET r == advance(cls, li, gen.kind, gen.g)
       IN  /\ gen' = [gen EXCEPT !.g = r.g,
                                 !.out = IF r.g.pc = "yield" THEN Append(@, r.value) ELSE @]
           /\ head' = IF cls \in Linear THEN r.node ELSE head
           /\ tail' = IF cls \in Circular THEN r.node ELSE tail
    /\ UNCHANGED <<cls, S, heap, trace, obs, nd>>

\* next(gen)
DoNext ==
    /\ gen.kind # "none"
    /\ gen.g.pc # "done"
    /\ Len(gen.out) < MaxYield
    /\ LET r == advance(cls, li, gen.kind, gen.g)
       IN  gen' = [gen EXCEPT !.g = r.g,
                              !.out = IF r.g.pc = "yield" THEN Append(@, r.value) ELSE @]
    /\ UNCHANGED <<cls, S, heap, head, tail, trace, obs, nd>>

\* li.head, the property of the two circular list classes: self.tail.next.
\* On a list whose tail is None the attribute lookup None.next raises
\* AttributeError (done is FALSE and no node is returned).
DoHead ==
    /\ cls \in Circular
    /\ obs' = IF tail = None
              THEN Obs("head", None, <<>>, <<>>, 0, FALSE)
              ELSE Obs("head", None, <<>>,
                       <<IF cls = "CircularLinkedList" THEN CircularLinkedList_head(li)
                                                       ELSE CircularDoublyLinkedList_head(li)>>,
                       0, TRUE)
    /\ UNCHANGED <<cls, S, heap, head, tail, trace, gen, nd>>

\* next(gen) is called: the suspended generator is resumed (for ... in li asks
\* for the next value)
DoResume ==
    /\ gen.kind # "none"
    /\ gen.g.pc # "done"
    /\ obs.op # "next"
    /\ obs' = Obs("next", None, <<>>, <<>>, 0, FALSE)
    /\ UNCHANGED <<cls, S, heap, head, tail, trace, gen, nd>>

\* The resumed generator runs to its next yield or to its return; the consumer
\* keeps only the value it was handed last (the loop variable).
DoStep ==
    /\ obs.op = "next"
    /\ LET r == advance(cls, li, gen.kind, gen.g)
       IN  gen' = [gen EXCEPT !.g = r.g,
                              !.out = IF r.g.pc = "yield" THEN <<r.value>> ELSE @]
    /\ obs' = NoObs
    /\ UNCHANGED <<cls, S, heap, head, tail, trace, nd>>

NextRead ==
    \/ DoList
    \/ DoHead
    \/ DoLen
    \/ DoBool
    \/ DoReversed
    \/ DoContains
    \/ DoInfiniteIterator
    \/ DoIter
    \/ DoNext

SpecRead == Init /\ [][NextRead]_vars

\* ------------------------------- iterating a circular list while it changes
\* A circular list cls(S); it = iter(li); next(it) until it returns, with
\* li.popleft() called between two steps of the iteration.
InitIter == Init /\ cls \in Circular

NextIter ==
    \/ DoIter /\ gen'.kind = "iter"
    \/ DoResume
    \/ DoStep
    \/ gen.kind = "iter" /\ gen.g.pc = "yield" /\ obs.op # "next" /\ DoPopleft

\* The consumer of the iteration keeps asking for the next value until the
\* generator returns, and a resumed generator runs.
SpecIter == InitIter /\ [][NextIter]_vars /\ WF_vars(DoResume) /\ WF_vars(DoStep)

\* ------------------------------------- graph_examples/__init__.py (lists)
\* The package module keeps an older copy of three of the list classes, over
\* its own node classes.
PkgClasses == {"LinkedList", "DoublyLinkedList", "CircularLinkedList"}

\* NonCircularLinkedNode.__init__
graph_examples_LinkedNode(h, value, next_) ==
    Append(h, [value |-> value, next |-> next_, last |-> None])

\* DoublyLinkedNode.__init__
graph_examples_DoublyLinkedNode(h, value, next_, last) ==
    Append(h, [value |-> value, next |-> next_, last |-> last])

\* AbstractCircularLinkedNode.__init__
graph_examples_CircularLinkedNode(h, value, next_) ==
    LET self == Len(h) + 1
    IN  Append(h, [value |-> value,
                   next  |-> IF next_ # None THEN next_ ELSE self,
                   last  |-> None])

RECURSIVE graph_examples_LinkedList_init_loop(_, _, _)
graph_examples_LinkedList_init_loop(h, node, values) ==
    IF values = <<>> THEN h
    ELSE LET h1 == graph_examples_LinkedNode(h, Head(values), None)
             new == Len(h1)
             h2 == [h1 EXCEPT ![node].next = new]
         IN  graph_examples_LinkedList_init_loop(h2, new, Tail(values))

graph_examples_LinkedList_init(values) ==
    IF values = <<>> THEN Self(<<>>, None, None)
    ELSE LET h1 == graph_examples_LinkedNode(<<>>, Head(values), None)
         IN  Self(graph_examples_LinkedList_init_loop(h1, 1, Tail(values)), 1, None)

RECURSIVE graph_examples_DoublyLinkedList_init_loop(_, _, _)
graph_examples_DoublyLinkedList_init_loop(h, node, values) ==
    IF values = <<>> THEN [heap |-> h, node |-> node]
    ELSE LET h1 == graph_examples_DoublyLinkedNode(h, Head(values), None, node)
             new == Len(h1)
             h2 == [h1 EXCEPT ![node].next = new]
         IN  graph_examples_DoublyLinkedList_init_loop(h2, new, Tail(values))

graph_examples_DoublyLinkedList_init(values) ==
    IF values = <<>> THEN Self(<<>>, None, None)
    ELSE LET h1 == graph_examples_DoublyLinkedNode(<<>>, Head(values), None, None)
             r == graph_examples_DoublyLinkedList_init_loop(h1, 1, Tail(values))
         IN  Self(r.heap, 1, r.node)

RECURSIVE graph_examples_CircularLinkedList_init_loop(_, _, _, _)
graph_examples_CircularLinkedList_init_loop(h, hd, node, values) ==
    IF values = <<>> THEN [heap |-> h, node |-> node]
    ELSE LET h1 == graph_examples_CircularLinkedNode(h, Head(values), hd)
             new == Len(h1)
             h2 == [h1 EXCEPT ![node].next = new]
         IN  graph_examples_CircularLinkedList_init_loop(h2, hd, new, Tail(values))

graph_examples_CircularLinkedList_init(values) ==
    IF values = <<>> THEN Self(<<>>, None, None)
    ELSE LET h1 == graph_examples_CircularLinkedNode(<<>>, Head(values), None)
             r == graph_examples_CircularLinkedList_init_loop(h1, 1, 1, Tail(values))
         IN  Self(r.heap, None, r.node)

graph_examples_Construct(c, values) ==
    CASE c = "LinkedList" -> graph_examples_LinkedList_init(values)
      [] c = "DoublyLinkedList" -> graph_examples_DoublyLinkedList_init(values)
      [] c = "CircularLinkedList" -> graph_examples_CircularLinkedList_init(values)

\* NonCircularLinkedList.__len__
RECURSIVE graph_examples_NonCircularLinkedList_len_loop(_, _, _, _)
graph_examples_NonCircularLinkedList_len_loop(h, node, length, fuel) ==
    IF node = None THEN [ret |-> length, done |-> TRUE]
    ELSE IF fuel = 0 THEN [ret |-> length, done |-> FALSE]
    ELSE graph_examples_NonCircularLinkedList_len_loop(h, h[node].next, length + 1, fuel - 1)

graph_examples_NonCircularLinkedList_len(self) ==
    graph_examples_NonCircularLinkedList_len_loop(self.heap, self.head, 0, Fuel(self.heap))

\* CircularLinkedList.head (getter and setter)
graph_examples_CircularLinkedList_head(self) == self.heap[self.tail].next

graph_examples_CircularLinkedList_head_set(self, node) ==
    [self EXCEPT !.heap[self.tail].next = node]

\* CircularLinkedList.__len__
RECURSIVE graph_examples_CircularLinkedList_len_loop(_, _, _, _, _)
graph_examples_CircularLinkedList_len_loop(h, tl, node, length, fuel) ==
    IF node = tl THEN [ret |-> length, done |-> TRUE]
    ELSE IF fuel = 0 THEN [ret |-> length, done |-> FALSE]
    ELSE graph_examples_CircularLinkedList_len_loop(h, tl, h[node].next, length + 1, fuel - 1)

graph_examples_CircularLinkedList_len(self) ==
    IF self.tail = None THEN [ret |-> 0, done |-> TRUE]
    ELSE graph_examples_CircularLinkedList_len_loop(self.heap, self.tail,
             graph_examples_CircularLinkedList_head(self), 1, Fuel(self.heap))

graph_examples_len(c, self) ==
    IF c = "CircularLinkedList" THEN graph_examples_CircularLinkedList_len(self)
    ELSE graph_examples_NonCircularLinkedList_len(self)

\* These classes define no __bool__: the truth value of a list is len(li) != 0.
graph_examples_bool(c, self) == graph_examples_len(c, self).ret # 0

\* LinkedList.popleft: no test for the empty list; on one node is None and
\* node.next raises AttributeError before anything is assigned.
graph_examples_LinkedList_popleft(self) ==
    LET node == self.head
    IN  IF node = None
        THEN Result(self.heap, self.head, self.tail, None, "AttributeError")
        ELSE Result(self.heap, self.heap[node].next, self.tail, self.heap[node].value, "ok")

\* DoublyLinkedList.popleft: likewise, old_head.next on None raises AttributeError.
graph_examples_DoublyLinkedList_popleft(self) ==
    LET old_head == self.head
    IN  IF old_head = None
        THEN Result(self.heap, self.head, self.tail, None, "AttributeError")
        ELSE LET hd == self.heap[old_head].next
                 value == self.heap[old_head].value
             IN  IF hd = None
                 THEN Result(self.heap, hd, None, value, "ok")
                 ELSE Result([self.heap EXCEPT ![hd].last = None], hd, self.tail, value, "ok")

\* CircularLinkedList.popleft
graph_examples_CircularLinkedList_popleft(self) ==
    IF self.tail = None
    THEN Result(self.heap, self.head, self.tail, None, "IndexError")
    ELSE LET hd == graph_examples_CircularLinkedList_head(self)
             value == self.heap[hd].value
         IN  IF self.tail = hd
             THEN Result(self.heap, self.head, None, value, "ok")
             ELSE LET s1 == graph_examples_CircularLinkedList_head_set(self, self.heap[hd].next)
                  IN  Result(s1.heap, s1.head, s1.tail, value, "ok")

graph_examples_popleft(c, self) ==
    CASE c = "LinkedList" -> graph_examples_LinkedList_popleft(self)
      [] c = "DoublyLinkedList" -> graph_examples_DoublyLinkedList_popleft(self)
      [] c = "CircularLinkedList" -> graph_examples_CircularLinkedList_popleft(self)

InitPkg ==
    /\ cls \in PkgClasses
    /\ S \in Inputs
    /\ heap = graph_examples_Construct(cls, S).heap
    /\ head = graph_examples_Construct(cls, S).head
    /\ tail = graph_examples_Construct(cls, S).tail
    /\ trace = <<>>
    /\ obs = NoObs
    /\ gen = NoGen
    /\ nd = None

DoPkgPopleft ==
    Mutate("popleft", None, graph_examples_bool(cls, li), graph_examples_popleft(cls, li))

\* len(li)
DoPkgLen ==
    /\ LET r == graph_examples_len(cls, li)
       IN  obs' = Obs("len", None, <<>>, <<>>, r.ret, r.done)
    /\ UNCHANGED <<cls, S, heap, head, tail, trace, gen, nd>>

NextPkg ==
    \/ DoPkgPopleft
    \/ DoPkgLen

SpecPkg == InitPkg /\ [][NextPkg]_vars

\* ------------------------------------------- chains of nodes (nodes.py)
\* The node classes used directly: the caller holds one node (the head of a
\* linear chain, the tail of a ring) and rebinds it to what each call returns.
LinearNodes == {"LinkedNode", "DoublyLinkedNode"}
CircularNodes == {"CircularLinkedNode", "CircularDoublyLinkedNode"}
DoublyNodes == {"DoublyLinkedNode", "CircularDoublyLinkedNode"}
NodeClasses == LinearNodes \cup CircularNodes

\* What a call on a node leaves behind: the heap, the node returned (alone or
\* first of the returned tuple), the value returned with it, the exception raised.
NodeResult(h, n, ret, err) == [heap |-> h, node |-> n, ret |-> ret, err |-> err]

RECURSIVE LinkedNode_from_iterable(_, _)
LinkedNode_from_iterable(h, values) ==
    IF values = <<>> THEN [heap |-> h, node |-> None]
    ELSE LET h1 == LinkedNode(h, Head(values), None)
             n == Len(h1)
             r == LinkedNode_from_iterable(h1, Tail(values))
         IN  [heap |-> [r.heap EXCEPT ![n].next = r.node], node |-> n]

RECURSIVE DoublyLinkedNode_from_iterable(_, _, _)
DoublyLinkedNode_from_iterable(h, values, last) ==
    IF values = <<>> THEN [heap |-> h, node |-> None]
    ELSE LET h1 == DoublyLinkedNode(h, Head(values), None, last)
             n == Len(h1)
             r == DoublyLinkedNode_from_iterable(h1, Tail(values), n)
         IN  [heap |-> [r.heap EXCEPT ![n].next = r.node], node |-> n]

\* A variant of CircularLinkedNode.from_iterable that returns the head of the ring.
RECURSIVE CircularLinkedNode_from_iterable_head(_, _, _, _)
CircularLinkedNode_from_iterable_head(h, values, hd, last_node) ==
    IF values = <<>> THEN [heap |-> h, node |-> hd]
    ELSE LET h1 == CircularLinkedNode(h, Head(values), hd)
             n == Len(h1)
             h2 == IF last_node # None THEN [h1 EXCEPT ![last_node].next = n] ELSE h1
         IN  CircularLinkedNode_from_iterable_head(h2, Tail(values),
                                                   IF hd = None THEN n ELSE hd, n)

RECURSIVE CircularLinkedNode_from_iterable(_, _, _, _)
CircularLinkedNode_from_iterable(h, values, hd, last_node) ==
    IF values = <<>> THEN [heap |-> h, node |-> last_node]
    ELSE LET h1 == CircularLinkedNode(h, Head(values), hd)
             n == Len(h1)
             h2 == IF last_node # None THEN [h1 EXCEPT ![last_node].next = n] ELSE h1
         IN  CircularLinkedNode_from_iterable(h2, Tail(values), IF hd = None THEN n ELSE hd, n)

RECURSIVE CircularDoublyLinkedNode_from_iterable(_, _, _, _)
CircularDoublyLinkedNode_from_iterable(h, values, hd, last_node) ==
    IF values = <<>> THEN [heap |-> h, node |-> last_node]
    ELSE LET h1 == CircularDoublyLinkedNode(h, Head(values), hd, last_node)
             n == Len(h1)
             h2 == IF last_node # None
                   THEN [[h1 EXCEPT ![last_node].next = n] EXCEPT ![hd].last = n]
                   ELSE h1
         IN  CircularDoublyLinkedNode_from_iterable(h2, Tail(values),
                                                    IF hd = None THEN n ELSE hd, n)

\* BaseLinearLinkedNode.__len__
RECURSIVE BaseLinearLinkedNode_len(_, _, _)
BaseLinearLinkedNode_len(h, self, fuel) ==
    IF h[self].next = None THEN [ret |-> 1, done |-> TRUE]
    ELSE IF fuel = 0 THEN [ret |-> 1, done |-> FALSE]
    ELSE LET r == BaseLinearLinkedNode_len(h, h[self].next, fuel - 1)
         IN  [ret |-> 1 + r.ret, done |-> r.done]

\* BaseCircularLinkedNode.__len__(self, tail)
RECURSIVE BaseCircularLinkedNode_len(_, _, _, _)
BaseCircularLinkedNode_len(h, self, tl, fuel) ==
    IF self = tl THEN [ret |-> 0, done |-> TRUE]
    ELSE IF fuel = 0 THEN [ret |-> 0, done |-> FALSE]
    ELSE LET r == BaseCircularLinkedNode_len(h, h[self].next,
                                             IF tl = None THEN self ELSE tl, fuel - 1)
         IN  [ret |-> 1 + r.ret, done |-> r.done]

\* One next() on a generator made by BaseLinearLinkedNode.__iter__ (through
\* the chain of `yield from`): this node's value, then the next node's, ...
BaseLinearLinkedNode_iter(h, self, g) ==
    IF g.pc = "done" THEN Returned(g)
    ELSE IF g.pc = "start" THEN Yielded(g, self, h)
    ELSE IF h[g.node].next # None THEN Yielded(g, h[g.node].next, h)
    ELSE Returned(g)

\* One next() on a generator made by BaseCircularLinkedNode.__iter__: the call
\* on `self` yields self.next.value and hands over to self.next.__iter__(tail),
\* which returns at once when self.next is tail.  g.node is the node whose
\* value was yielded (the next call's self), g.head the tail argument.
BaseCircularLinkedNode_iter(h, self, g) ==
    IF g.pc = "done" THEN Returned(g)
    ELSE IF g.pc = "start" THEN Yielded([g EXCEPT !.head = self], h[self].next, h)
    ELSE IF g.node = g.head THEN Returned(g)
    ELSE Yielded(g, h[g.node].next, h)

\* One next() on a generator made by DoublyLinkedNode.__reversed__
DoublyLinkedNode_reversed(h, self, g) ==
    IF g.pc = "done" THEN Returned(g)
    ELSE IF g.pc = "start" THEN Yielded(g, self, h)
    ELSE IF h[g.node].last # None THEN Yielded(g, h[g.node].last, h)
    ELSE Returned(g)

\* One next() on a generator made by CircularDoublyLinkedNode.__reversed__
\* (g.head is the tail argument: the node the first call was made on)
CircularDoublyLinkedNode_reversed(h, self, g) ==
    IF g.pc = "done" THEN Returned(g)
    ELSE IF g.pc = "start" THEN Yielded([g EXCEPT !.head = self], self, h)
    ELSE IF h[g.node].last = g.head THEN Returned(g)
    ELSE Yielded(g, h[g.node].last, h)

\* ------------------------- the node classes of graph_examples/__init__.py
\* The package module keeps its own, older copy of the node classes; the tests
\* exercise that copy.  Its classes are named with the module's name in front.
PkgNodeClasses == {"graph_examples.DoublyLinkedNode", "graph_examples.CircularDoublyLinkedNode"}

\* graph_examples.CircularDoublyLinkedNode.__init__
graph_examples_CircularDoublyLinkedNode(h, value, next_, last) ==
    LET self == Len(h) + 1
    IN  Append(h, [value |-> value,
                   next |-> IF next_ # None THEN next_ ELSE self,
                   last |-> IF last # None THEN last ELSE self])

RECURSIVE graph_examples_DoublyLinkedNode_from_iterable(_, _, _)
graph_examples_DoublyLinkedNode_from_iterable(h, values, last) ==
    IF values = <<>> THEN [heap |-> h, node |-> None]
    ELSE LET h1 == graph_examples_DoublyLinkedNode(h, Head(values), None, last)
             n == Len(h1)
             r == graph_examples_DoublyLinkedNode_from_iterable(h1, Tail(values), n)
         IN  [heap |-> [r.heap EXCEPT ![n].next = r.node], node |-> n]

RECURSIVE graph_examples_CircularDoublyLinkedNode_from_iterable(_, _, _, _)
graph_examples_CircularDoublyLinkedNode_from_iterable(h, values, hd, last_node) ==
    IF values = <<>> THEN [heap |-> h, node |-> last_node]
    ELSE LET h1 == graph_examples_CircularDoublyLinkedNode(h, Head(values), hd, last_node)
             n == Len(h1)
             h2 == IF last_node # None
                   THEN [[h1 EXCEPT ![last_node].next = n] EXCEPT ![hd].last = n]
                   ELSE h1
         IN  graph_examples_CircularDoublyLinkedNode_from_iterable(
                 h2, Tail(values), IF hd = None THEN n ELSE hd, n)

\* One next() on a generator made by graph_examples.NonCircularLinkedNode.__iter__
graph_examples_NonCircularLinkedNode_iter(h, self, g) ==
    IF g.pc = "done" THEN Returned(g)
    ELSE IF g.pc = "start" THEN Yielded(g, self, h)
    ELSE IF h[g.node].next # None THEN Yielded(g, h[g.node].next, h)
    ELSE Returned(g)

\* One next() on a generator made by graph_examples.AbstractCircularLinkedNode.__iter__
graph_examples_AbstractCircularLinkedNode_iter(h, self, g) ==
    IF g.pc = "done" THEN Returned(g)
    ELSE IF g.pc = "start" THEN Yielded([g EXCEPT !.head = self], h[self].next, h)
    ELSE IF g.node = g.head THEN Returned(g)
    ELSE Yielded(g, h[g.node].next, h)

\* One next() on a generator made by graph_examples.CircularDoublyLinkedNode.__reversed__
graph_examples_CircularDoublyLinkedNode_reversed(h, self, g) ==
    IF g.pc = "done" THEN Returned(g)
    ELSE IF g.pc = "start" THEN Yielded([g EXCEPT !.head = self], self, h)
    ELSE IF h[g.node].last = g.head THEN Returned(g)
    ELSE Yielded(g, h[g.node].last, h)

graph_examples_DoublyLinkedNode_appendleft(h, self, value) ==
    LET h1 == graph_examples_DoublyLinkedNode(h, value, self, None)
        h2 == [h1 EXCEPT ![self].last = Len(h1)]
    IN  NodeResult(h2, h2[self].last, None, "ok")

\* head = self.next; head.last = None raises when head is None, before
\* anything is assigned.
graph_examples_DoublyLinkedNode_popleft(h, self) ==
    LET hd == h[self].next
    IN  IF hd = None
        THEN NodeResult(h, self, None, "AttributeError")
        ELSE LET h1 == [h EXCEPT ![hd].last = None]
                 h2 == [h1 EXCEPT ![self].next = None]
             IN  NodeResult(h2, hd, h2[self].value, "ok")

graph_examples_CircularDoublyLinkedNode_append(h, self, value) ==
    LET h1 == graph_examples_CircularDoublyLinkedNode(h, value, h[self].next, self)
        h2 == [h1 EXCEPT ![self].next = Len(h1)]
        \* self.next.last = self
        h3 == [h2 EXCEPT ![h2[self].next].last = self]
    IN  NodeResult(h3, h3[self].next, None, "ok")

graph_examples_CircularDoublyLinkedNode_appendleft(h, self, value) ==
    LET h1 == graph_examples_CircularDoublyLinkedNode(h, value, h[self].next, self)
        h2 == [h1 EXCEPT ![self].next = Len(h1)]
        \* self.next.last = self
        h3 == [h2 EXCEPT ![h2[self].next].last = self]
    IN  NodeResult(h3, self, None, "ok")

graph_examples_CircularDoublyLinkedNode_popleft(h, self) ==
    LET value == h[h[self].next].value
    IN  IF self = h[self].next
        THEN NodeResult(h, None, value, "ok")
        ELSE LET h1 == [h EXCEPT ![self].next = h[h[self].next].next]
                 h2 == [h1 EXCEPT ![h1[self].next].last = self]
             IN  NodeResult(h2, self, value, "ok")

\* cls.from_iterable(values)
from_iterable(c, values) ==
    CASE c = "LinkedNode" -> LinkedNode_from_iterable(<<>>, values)
      [] c = "DoublyLinkedNode" -> DoublyLinkedNode_from_iterable(<<>>, values, None)
      [] c = "CircularLinkedNode" -> CircularLinkedNode_from_iterable(<<>>, values, None, None)
      [] c = "CircularDoublyLinkedNode" ->
             CircularDoublyLinkedNode_from_iterable(<<>>, values, None, None)
      [] c = "graph_examples.DoublyLinkedNode" ->
             graph_examples_DoublyLinkedNode_from_iterable(<<>>, values, None)
      [] c = "graph_examples.CircularDoublyLinkedNode" ->
             graph_examples_CircularDoublyLinkedNode_from_iterable(<<>>, values, None, None)

\* One next() on a generator over a node: iter(node) or reversed(node).
node_next(c, h, self, kind, g) ==
    CASE kind = "iter" /\ c \in LinearNodes -> BaseLinearLinkedNode_iter(h, self, g)
      [] kind = "iter" /\ c \in CircularNodes -> BaseCircularLinkedNode_iter(h, self, g)
      [] kind = "reversed" /\ c = "DoublyLinkedNode" -> DoublyLinkedNode_reversed(h, self, g)
      [] kind = "reversed" /\ c = "CircularDoublyLinkedNode" ->
             CircularDoublyLinkedNode_reversed(h, self, g)
      [] kind = "iter" /\ c = "graph_examples.DoublyLinkedNode" ->
             graph_examples_NonCircularLinkedNode_iter(h, self, g)
      [] kind = "iter" /\ c = "graph_examples.CircularDoublyLinkedNode" ->
             graph_examples_AbstractCircularLinkedNode_iter(h, self, g)
      [] kind = "reversed" /\ c = "graph_examples.CircularDoublyLinkedNode" ->
             graph_examples_CircularDoublyLinkedNode_reversed(h, self, g)

\* list(node) and list(reversed(node))
RECURSIVE node_list_loop(_, _, _, _, _, _, _, _)
node_list_loop(c, h, self, kind, g, out, nodes, fuel) ==
    LET r == node_next(c, h, self, kind, g)
    IN  IF r.g.pc = "done" THEN [out |-> out, nodes |-> nodes, done |-> TRUE]
        ELSE IF fuel = 0 THEN [out |-> out, nodes |-> nodes, done |-> FALSE]
        ELSE node_list_loop(c, h, self, kind, r.g, Append(out, r.value),
                            Append(nodes, r.node), fuel - 1)

node_list(c, h, self, kind) ==
    node_list_loop(c, h, self, kind, NewGenerator, <<>>, <<>>, Fuel(h))

node_len(c, h, self) ==
    IF c \in LinearNodes THEN BaseLinearLinkedNode_len(h, self, Fuel(h))
    ELSE BaseCircularLinkedNode_len(h, self, None, Fuel(h))

LinkedNode_appendleft(h, self, value) ==
    LET h1 == LinkedNode(h, value, self)
    IN  NodeResult(h1, Len(h1), None, "ok")

LinkedNode_popleft(h, self) ==
    NodeResult(h, h[self].next, h[self].value, "ok")

DoublyLinkedNode_appendleft(h, self, value) ==
    LET h1 == DoublyLinkedNode(h, value, self, None)
        h2 == [h1 EXCEPT ![self].last = Len(h1)]
    IN  NodeResult(h2, h2[self].last, None, "ok")

\* A variant of DoublyLinkedNode.popleft that clears next.last without testing
\* that there is a next node.
DoublyLinkedNode_popleft_notest(h, self) ==
    IF h[self].next = None
    THEN NodeResult(h, self, None, "AttributeError")
    ELSE NodeResult([h EXCEPT ![h[self].next].last = None], h[self].next, h[self].value, "ok")

DoublyLinkedNode_popleft(h, self) ==
    LET h1 == IF h[self].next # None THEN [h EXCEPT ![h[self].next].last = None] ELSE h
    IN  NodeResult(h1, h1[self].next, h1[self].value, "ok")

\* A variant of CircularLinkedNode.appendleft that returns the new node.
CircularLinkedNode_appendleft_returnsnew(h, self, value) ==
    LET h1 == CircularLinkedNode(h, value, h[self].next)
        h2 == [h1 EXCEPT ![self].next = Len(h1)]
    IN  NodeResult(h2, h2[self].next, None, "ok")

CircularLinkedNode_appendleft(h, self, value) ==
    LET h1 == CircularLinkedNode(h, value, h[self].next)
        h2 == [h1 EXCEPT ![self].next = Len(h1)]
    IN  NodeResult(h2, self, None, "ok")

CircularLinkedNode_popleft(h, self) ==
    LET value == h[h[self].next].value
    IN  IF self = h[self].next
        THEN NodeResult(h, None, value, "ok")
        ELSE NodeResult([h EXCEPT ![self].next = h[h[self].next].next], self, value, "ok")

CircularDoublyLinkedNode_appendleft(h, self, value) ==
    LET h1 == CircularDoublyLinkedNode(h, value, h[self].next, self)
        h2 == [h1 EXCEPT ![self].next = Len(h1)]
        \* self.next.next.last = self.next
        h3 == [h2 EXCEPT ![h2[h2[self].next].next].last = h2[self].next]
    IN  NodeResult(h3, self, None, "ok")

CircularDoublyLinkedNode_popleft(h, self) ==
    LET value == h[h[self].next].value
    IN  IF self = h[self].next
        THEN NodeResult(h, None, value, "ok")
        ELSE LET h1 == [h EXCEPT ![self].next = h[h[self].next].next]
                 h2 == [h1 EXCEPT ![h1[self].next].last = self]
             IN  NodeResult(h2, self, value, "ok")

\* A variant of LinkedNode.reverse that builds the reversed chain out of new
\* nodes instead of relinking the old ones.
RECURSIVE LinkedNode_reverse_copying(_, _, _, _)
LinkedNode_reverse_copying(h, self, last_node, fuel) ==
    LET next_node == h[self].next
        h1 == LinkedNode(h, h[self].value, last_node)
    IN  IF next_node = None THEN NodeResult(h1, Len(h1), None, "ok")
        ELSE IF fuel = 0 THEN NodeResult(h1, self, None, "RecursionError")
        ELSE LinkedNode_reverse_copying(h1, next_node, Len(h1), fuel - 1)

\* LinkedNode.reverse(self, last_node)
RECURSIVE LinkedNode_reverse(_, _, _, _)
LinkedNode_reverse(h, self, last_node, fuel) ==
    LET next_node == h[self].next
        h1 == [h EXCEPT ![self].next = last_node]
    IN  IF next_node = None THEN NodeResult(h1, self, None, "ok")
        ELSE IF fuel = 0 THEN NodeResult(h1, self, None, "RecursionError")
        ELSE LinkedNode_reverse(h1, next_node, self, fuel - 1)

\* DoublyLinkedNode.reverse(self)
RECURSIVE DoublyLinkedNode_reverse(_, _, _)
DoublyLinkedNode_reverse(h, self, fuel) ==
    LET h1 == [h EXCEPT ![self].next = h[self].last, ![self].last = h[self].next]
    IN  IF h1[self].last = None THEN NodeResult(h1, self, None, "ok")
        ELSE IF fuel = 0 THEN NodeResult(h1, self, None, "RecursionError")
        ELSE DoublyLinkedNode_reverse(h1, h1[self].last, fuel - 1)

\* A variant of CircularLinkedNode.reverse that returns the node the recursion
\* ends on (the old tail) instead of the tail it carried along.
RECURSIVE CircularLinkedNode_reverse_oldtail(_, _, _, _, _)
CircularLinkedNode_reverse_oldtail(h, self, last_node, tl, fuel) ==
    LET next_node == h[self].next
        h1 == [h EXCEPT ![self].next = last_node]
    IN  IF next_node = None THEN NodeResult(h1, self, None, "ok")
        ELSE IF fuel = 0 THEN NodeResult(h1, self, None, "RecursionError")
        ELSE CircularLinkedNode_reverse_oldtail(h1, next_node, self,
                                                IF tl = None THEN next_node ELSE tl, fuel - 1)

\* CircularLinkedNode.reverse(self, last_node, tail)
RECURSIVE CircularLinkedNode_reverse(_, _, _, _, _)
CircularLinkedNode_reverse(h, self, last_node, tl, fuel) ==
    LET next_node == h[self].next
        h1 == [h EXCEPT ![self].next = last_node]
    IN  IF next_node = None THEN NodeResult(h1, tl, None, "ok")
        ELSE IF fuel = 0 THEN NodeResult(h1, self, None, "RecursionError")
        ELSE CircularLinkedNode_reverse(h1, next_node, self,
                                        IF tl = None THEN next_node ELSE tl, fuel - 1)

\* CircularDoublyLinkedNode.reverse(self, head)
RECURSIVE CircularDoublyLinkedNode_reverse(_, _, _, _)
CircularDoublyLinkedNode_reverse(h, self, hd, fuel) ==
    IF self = hd THEN NodeResult(h, h[self].last, None, "ok")
    ELSE IF fuel = 0 THEN NodeResult(h, self, None, "RecursionError")
    ELSE LET h1 == [h EXCEPT ![self].next = h[self].last, ![self].last = h[self].next]
         IN  CircularDoublyLinkedNode_reverse(h1, h1[self].last,
                                              IF hd = None THEN self ELSE hd, fuel - 1)

\* node.reverse()
node_reverse(c, h, self) ==
    CASE c = "LinkedNode" -> LinkedNode_reverse(h, self, None, Fuel(h))
      [] c = "DoublyLinkedNode" -> DoublyLinkedNode_reverse(h, self, Fuel(h))
      [] c = "CircularLinkedNode" -> CircularLinkedNode_reverse(h, self, None, None, Fuel(h))
      [] c = "CircularDoublyLinkedNode" ->
             CircularDoublyLinkedNode_reverse(h, self, None, Fuel(h))

\* DoublyLinkedNode.tail (a property): the node's own tail, walking next
RECURSIVE DoublyLinkedNode_tail(_, _, _)
DoublyLinkedNode_tail(h, self, fuel) ==
    IF h[self].next = None THEN NodeResult(h, self, None, "ok")
    ELSE IF fuel = 0 THEN NodeResult(h, self, None, "RecursionError")
    ELSE DoublyLinkedNode_tail(h, h[self].next, fuel - 1)

\* A variant of DoublyLinkedNode.append that does not pass self as the new
\* node's last.
DoublyLinkedNode_append_nolast(h, self, value) ==
    LET h1 == DoublyLinkedNode(h, value, None, None)
        h2 == [h1 EXCEPT ![self].next = Len(h1)]
    IN  NodeResult(h2, h2[self].next, None, "ok")

DoublyLinkedNode_append(h, self, value) ==
    LET h1 == DoublyLinkedNode(h, value, None, self)
        h2 == [h1 EXCEPT ![self].next = Len(h1)]
    IN  NodeResult(h2, h2[self].next, None, "ok")

DoublyLinkedNode_pop(h, self) ==
    LET h1 == IF h[self].last # None THEN [h EXCEPT ![h[self].last].next = None] ELSE h
    IN  NodeResult(h1, h1[self].last, h1[self].value, "ok")

\* A variant of CircularDoublyLinkedNode.append that returns self, as
\* appendleft does.
CircularDoublyLinkedNode_append_returnsself(h, self, value) ==
    LET h1 == CircularDoublyLinkedNode(h, value, h[self].next, self)
        h2 == [h1 EXCEPT ![self].next = Len(h1)]
        h3 == [h2 EXCEPT ![h2[h2[self].next].next].last = h2[self].next]
    IN  NodeResult(h3, self, None, "ok")

CircularDoublyLinkedNode_append(h, self, value) ==
    LET h1 == CircularDoublyLinkedNode(h, value, h[self].next, self)
        h2 == [h1 EXCEPT ![self].next = Len(h1)]
        \* self.next.next.last = self.next
        h3 == [h2 EXCEPT ![h2[h2[self].next].next].last = h2[self].next]
    IN  NodeResult(h3, h3[self].next, None, "ok")

\* A variant of CircularDoublyLinkedNode.pop that leaves self.next.last alone.
CircularDoublyLinkedNode_pop_nolast(h, self) ==
    LET value == h[self].value
    IN  IF self = h[self].next
        THEN NodeResult(h, None, value, "ok")
        ELSE NodeResult([h EXCEPT ![h[self].last].next = h[self].next],
                        h[self].last, value, "ok")

CircularDoublyLinkedNode_pop(h, self) ==
    LET value == h[self].value
    IN  IF self = h[self].next
        THEN NodeResult(h, None, value, "ok")
        ELSE LET h1 == [h EXCEPT ![h[self].last].next = h[self].next]
                 h2 == [h1 EXCEPT ![h1[self].next].last = h1[self].last]
             IN  NodeResult(h2, h2[self].last, value, "ok")

node_pop(c, h, self) ==
    CASE c = "DoublyLinkedNode" -> DoublyLinkedNode_pop(h, self)
      [] c = "CircularDoublyLinkedNode" -> CircularDoublyLinkedNode_pop(h, self)

node_appendleft(c, h, self, value) ==
    CASE c = "LinkedNode" -> LinkedNode_appendleft(h, self, value)
      [] c = "DoublyLinkedNode" -> DoublyLinkedNode_appendleft(h, self, value)
      [] c = "CircularLinkedNode" -> CircularLinkedNode_appendleft(h, self, value)
      [] c = "CircularDoublyLinkedNode" -> CircularDoublyLinkedNode_appendleft(h, self, value)
      [] c = "graph_examples.DoublyLinkedNode" ->
             graph_examples_DoublyLinkedNode_appendleft(h, self, value)
      [] c = "graph_examples.CircularDoublyLinkedNode" ->
             graph_examples_CircularDoublyLinkedNode_appendleft(h, self, value)

node_popleft(c, h, self) ==
    CASE c = "LinkedNode" -> LinkedNode_popleft(h, self)
      [] c = "DoublyLinkedNode" -> DoublyLinkedNode_popleft(h, self)
      [] c = "CircularLinkedNode" -> CircularLinkedNode_popleft(h, self)
      [] c = "CircularDoublyLinkedNode" -> CircularDoublyLinkedNode_popleft(h, self)
      [] c = "graph_examples.DoublyLinkedNode" -> graph_examples_DoublyLinkedNode_popleft(h, self)
      [] c = "graph_examples.CircularDoublyLinkedNode" ->
             graph_examples_CircularDoublyLinkedNode_popleft(h, self)

node_append(c, h, self, value) ==
    CASE c = "graph_examples.CircularDoublyLinkedNode" ->
             graph_examples_CircularDoublyLinkedNode_append(h, self, value)
      [] c = "DoublyLinkedNode" -> DoublyLinkedNode_append(h, self, value)
      [] c = "CircularDoublyLinkedNode" -> CircularDoublyLinkedNode_append(h, self, value)

\* node = cls.from_iterable(S)
InitNode ==
    /\ cls \in NodeClasses
    /\ S \in Inputs
    /\ heap = from_iterable(cls, S).heap
    /\ nd = from_iterable(cls, S).node
    /\ head = None
    /\ tail = None
    /\ trace = <<>>
    /\ obs = NoObs
    /\ gen = NoGen

\* A call on the node held whose result the caller binds to `node`.  A call
\* that raises binds nothing.  A call that runs out of fuel stands for one that
\* exceeds the interpreter's recursion limit; how far it got by then is not
\* modelled, so no further call is made on what it leaves behind.
MutateNode(op, arg, r) ==
    /\ nd # None
    /\ Len(trace) < MaxOps
    /\ \A i \in 1..Len(trace) : trace[i].err # "RecursionError"
    /\ heap' = r.heap
    /\ nd' = IF r.err = "ok" THEN r.node ELSE nd
    /\ trace' = Append(trace, Call(op, arg, TRUE, r))
    /\ obs' = NoObs
    /\ UNCHANGED <<cls, S, head, tail, gen>>

\* node = node.appendleft(x)
DoNodeAppendleft ==
    \E x \in Values : nd # None /\ MutateNode("appendleft", x, node_appendleft(cls, heap, nd, x))

\* node, value = node.popleft()
DoNodePopleft == nd # None /\ MutateNode("popleft", None, node_popleft(cls, heap, nd))

\* node = node.reverse()
DoNodeReverse ==
    /\ nd # None
    /\ cls \in NodeClasses
    /\ MutateNode("reverse", None, node_reverse(cls, heap, nd))

\* node = node.append(x)
DoNodeAppend ==
    \E x \in Values :
        /\ nd # None
        /\ cls \in DoublyNodes \cup {"graph_examples.CircularDoublyLinkedNode"}
        /\ MutateNode("append", x, node_append(cls, heap, nd, x))

\* node, value = node.pop()
DoNodePop ==
    /\ nd # None
    /\ cls \in DoublyNodes
    /\ MutateNode("pop", None, node_pop(cls, heap, nd))

\* node = node.tail.append(x): append called from the tail, as
\* DoublyLinkedNode.append asks
DoNodeTailAppend ==
    \E x \in Values :
        /\ nd # None
        /\ cls = "DoublyLinkedNode"
        /\ LET t == DoublyLinkedNode_tail(heap, nd, Fuel(heap))
           IN  MutateNode("tail.append", x,
                          IF t.err = "ok" THEN DoublyLinkedNode_append(heap, t.node, x) ELSE t)

\* list(node)
DoNodeList ==
    /\ nd # None
    /\ LET r == node_list(cls, heap, nd, "iter")
       IN  obs' = Obs("list", None, r.out, r.nodes, 0, r.done)
    /\ UNCHANGED <<cls, S, heap, head, tail, trace, gen, nd>>

\* len(node)
DoNodeLen ==
    /\ nd # None
    /\ LET r == node_len(cls, heap, nd)
       IN  obs' = Obs("len", None, <<>>, <<>>, r.ret, r.done)
    /\ UNCHANGED <<cls, S, heap, head, tail, trace, gen, nd>>

\* list(reversed(node))
DoNodeReversed ==
    /\ nd # None
    /\ cls \in DoublyNodes \cup {"graph_examples.CircularDoublyLinkedNode"}
    /\ LET r == node_list(cls, heap, nd, "reversed")
       IN  obs' = Obs("reversed", None, r.out, r.nodes, 0, r.done)
    /\ UNCHANGED <<cls, S, heap, head, tail, trace, gen, nd>>

NextNode ==
    \/ DoNodeAppendleft
    \/ DoNodePopleft
    \/ DoNodeReverse
    \/ DoNodeAppend
    \/ DoNodeTailAppend
    \/ DoNodePop
    \/ DoNodeList
    \/ DoNodeLen
    \/ DoNodeReversed

SpecNode == InitNode /\ [][NextNode]_vars

\* Lists and chains of nodes together: a list class over S, or a node class's
\* from_iterable(S), and the calls of that class.
InitAny == Init \/ InitNode

NextAny ==
    \/ cls \in Classes /\ Next
    \/ cls \in NodeClasses /\ NextNode

SpecAny == InitAny /\ [][NextAny]_vars

\* node = cls.from_iterable(S), cls a node class of graph_examples/__init__.py
InitPkgNode ==
    /\ cls \in PkgNodeClasses
    /\ S \in Inputs
    /\ heap = from_iterable(cls, S).heap
    /\ nd = from_iterable(cls, S).node
    /\ head = None
    /\ tail = None
    /\ trace = <<>>
    /\ obs = NoObs
    /\ gen = NoGen

NextPkgNode ==
    \/ DoNodeAppendleft
    \/ DoNodeAppend
    \/ DoNodePopleft
    \/ DoNodeList
    \/ DoNodeReversed

SpecPkgNode == InitPkgNode /\ [][NextPkgNode]_vars

\* ============================================================ properties
Reversed(s) == [i \in 1..Len(s) |-> s[Len(s) + 1 - i]]

Range(s) == {s[i] : i \in 1..Len(s)}

Last(s) == s[Len(s)]

\* The trace consists of calls of op only, each made while li was truthy.
OnlyWhileTruthy(op) == \A i \in 1..Len(trace) : trace[i].op = op /\ trace[i].truthy

Returns == [i \in 1..Len(trace) |-> trace[i].ret]

Empty == ~bool(cls, li) /\ head = None /\ tail = None

\* C1: one full iteration of cls(S) terminates and yields exactly the values of
\* S in order, each node of the list visited exactly once (for every class and
\* every S, repeated values included).
Thm_C1 ==
    (trace = <<>> /\ obs.op = "list") =>
        /\ obs.done
        /\ obs.out = S
        /\ Len(obs.nodes) = Len(S)
        /\ Range(obs.nodes) = 1..Len(heap)
        /\ Cardinality(Range(obs.nodes)) = Len(obs.nodes)

Wit_C1 ==
    /\ trace = <<>> /\ obs.op = "list"
    /\ cls = "CircularLinkedList"
    /\ Len(S) = 3 /\ S[3] = S[1] /\ S[2] # S[1]
    /\ obs.out = S

\* C2: len(cls(S)) = len(S), and after any sequence of appendleft / append /
\* popleft / pop / reverse calls len(li) terminates and equals the number of
\* values one iteration of li yields.
Thm_C2 ==
    obs.op = "len" =>
        /\ obs.done
        /\ list(cls, li).done
        /\ obs.n = Len(list(cls, li).out)
        /\ (trace = <<>> => obs.n = Len(S))

Wit_C2 ==
    /\ obs.op = "len" /\ obs.n = 2
    /\ cls \in Circular
    /\ Len(trace) >= 2
    /\ \E i \in 1..Len(trace) : trace[i].op = "reverse"
    /\ \E i \in 1..Len(trace) : trace[i].op = "popleft" /\ trace[i].err = "ok"

\* C3: after li = cls(S); li.appendleft(x), iterating li yields x followed by
\* the values of S in order.
Thm_C3 ==
    (Len(trace) = 1 /\ trace[1].op = "appendleft" /\ obs.op = "list") =>
        obs.done /\ obs.out = <<trace[1].arg>> \o S

Wit_C3 ==
    /\ Len(trace) = 1 /\ trace[1].op = "appendleft" /\ obs.op = "list"
    /\ cls = "CircularDoublyLinkedList" /\ Len(S) >= 2
    /\ obs.out = <<trace[1].arg>> \o S

\* C4: for the doubly linked classes, after li = cls(S); li.append(x),
\* iterating li yields the values of S in order followed by x.
Thm_C4 ==
    (cls \in Doubly /\ Len(trace) = 1 /\ trace[1].op = "append" /\ obs.op = "list") =>
        obs.done /\ obs.out = S \o <<trace[1].arg>>

Wit_C4 ==
    /\ Len(trace) = 1 /\ trace[1].op = "append" /\ obs.op = "list"
    /\ cls = "CircularDoublyLinkedList" /\ Len(S) >= 2
    /\ obs.out = S \o <<trace[1].arg>>

\* C5: popleft called repeatedly while the list is truthy returns the values of
\* S in order, the list stays truthy until exactly len(S) calls have been made,
\* and is Empty (falsy, head and tail None) after them.
Thm_C5 ==
    OnlyWhileTruthy("popleft") =>
        /\ \A i \in 1..Len(trace) : trace[i].err = "ok"
        /\ Len(trace) <= Len(S)
        /\ Returns = SubSeq(S, 1, Len(trace))
        /\ (bool(cls, li) <=> Len(trace) < Len(S))
        /\ (Len(trace) = Len(S) => Empty)

Wit_C5 ==
    /\ OnlyWhileTruthy("popleft")
    /\ Len(S) = 3 /\ Len(trace) = 3 /\ S[1] # S[2]
    /\ cls = "CircularLinkedList"
    /\ Returns = S /\ Empty

\* C6: for the doubly linked classes, pop called repeatedly while the list is
\* truthy returns the values of S in reverse order, the list stays truthy
\* until exactly len(S) calls have been made, and is Empty after them.
Thm_C6 ==
    (cls \in Doubly /\ OnlyWhileTruthy("pop")) =>
        /\ \A i \in 1..Len(trace) : trace[i].err = "ok"
        /\ Len(trace) <= Len(S)
        /\ Returns = SubSeq(Reversed(S), 1, Len(trace))
        /\ (bool(cls, li) <=> Len(trace) < Len(S))
        /\ (Len(trace) = Len(S) => Empty)

Wit_C6 ==
    /\ OnlyWhileTruthy("pop")
    /\ Len(S) = 3 /\ Len(trace) = 3 /\ S[1] # S[3]
    /\ cls = "DoublyLinkedList"
    /\ Returns = Reversed(S) /\ Empty

\* C7: popleft (and pop, where there is one) called on an Empty list, whether
\* constructed empty or emptied by earlier calls, raises IndexError and leaves
\* the list as it was: Empty, head and tail None.
Thm_C7 ==
    [][(/\ Len(trace') = Len(trace) + 1
        /\ Last(trace').op \in {"popleft", "pop"}
        /\ ~bool(cls, li))
       => (/\ Last(trace').err = "IndexError"
           /\ heap' = heap /\ head' = head /\ tail' = tail
           /\ head' = None /\ tail' = None)]_vars

Wit_C7 ==
    /\ Len(trace) = 3
    /\ trace[1].op = "append" /\ trace[2].op = "popleft" /\ trace[2].err = "ok"
    /\ trace[3].op = "pop" /\ ~trace[3].truthy /\ trace[3].err = "IndexError"
    /\ S = <<>> /\ Empty

\* C9: after li = cls(S); li.reverse(), iterating li yields the values of S in
\* reverse order (empty and singleton S included).
Thm_C9 ==
    (Len(trace) = 1 /\ trace[1].op = "reverse" /\ obs.op = "list") =>
        obs.done /\ trace[1].err = "ok" /\ obs.out = Reversed(S)

Wit_C9 ==
    /\ Len(trace) = 1 /\ trace[1].op = "reverse" /\ obs.op = "list"
    /\ cls = "CircularLinkedList" /\ Len(S) = 3 /\ S[1] # S[3]
    /\ obs.out = Reversed(S)

\* C10: reverse() called twice on cls(S) yields, under iteration, the same
\* sequence as iterating cls(S).
Thm_C10 ==
    (Len(trace) = 2 /\ trace[1].op = "reverse" /\ trace[2].op = "reverse" /\ obs.op = "list") =>
        obs.done /\ obs.out = list(cls, Construct(cls, S)).out

Wit_C10 ==
    /\ Len(trace) = 2 /\ trace[1].op = "reverse" /\ trace[2].op = "reverse" /\ obs.op = "list"
    /\ cls = "CircularDoublyLinkedList" /\ Len(S) = 3 /\ S[1] # S[3]
    /\ obs.out = S

\* C8: in graph_examples/__init__.py, popleft on an empty LinkedList,
\* DoublyLinkedList or CircularLinkedList raises IndexError (not some other
\* error) and leaves the list empty.
Cex_C8 ==
    (trace # <<>> /\ Last(trace).op = "popleft" /\ ~Last(trace).truthy) =>
        /\ Last(trace).err = "IndexError"
        /\ ~graph_examples_bool(cls, li)

\* C13: bool(cls(S)) is true iff S is nonempty, and after any sequence of
\* appendleft / append / popleft / pop / reverse calls bool(li) is true iff li
\* holds at least one element (len(li) > 0).
Thm_C13 ==
    obs.op = "bool" =>
        /\ ((obs.n = 1) <=> (len(cls, li).ret > 0))
        /\ (trace = <<>> => ((obs.n = 1) <=> (S # <<>>)))

Wit_C13 ==
    /\ obs.op = "bool" /\ obs.n = 0
    /\ cls = "DoublyLinkedList" /\ Len(S) = 1
    /\ Len(trace) = 3
    /\ trace[1].op = "append" /\ trace[2].op = "popleft" /\ trace[3].op = "pop"
    /\ trace[3].err = "ok"

\* C11: infinite_iterator() on a circular list built from nonempty S never
\* ends and its k-th value (k = 0, 1, 2, ...) is S[k mod len(S)], so the first
\* 3 * len(S) values are S three times over; on an Empty list it ends at the
\* first next() without a value and without raising.
Thm_C11 ==
    (gen.kind = "infinite_iterator" /\ gen.g.pc # "start" /\ trace = <<>>) =>
        IF S = <<>>
        THEN gen.g.pc = "done" /\ gen.out = <<>>
        ELSE /\ gen.g.pc = "yield"
             /\ \A k \in 0..(Len(gen.out) - 1) : gen.out[k + 1] = S[(k % Len(S)) + 1]

Wit_C11 ==
    /\ gen.kind = "infinite_iterator" /\ gen.g.pc = "yield"
    /\ cls = "CircularLinkedList"
    /\ Len(S) = 3 /\ S[1] # S[2] /\ S[3] = S[1]
    /\ gen.out = S \o S \o S

\* C12: for the doubly linked list classes, reversed(cls(S)) terminates and
\* yields the values of S in reverse order (empty S included).
Thm_C12 ==
    (obs.op = "reversed" /\ trace = <<>>) =>
        obs.done /\ obs.out = Reversed(S)

Wit_C12 ==
    /\ obs.op = "reversed" /\ trace = <<>>
    /\ cls = "CircularDoublyLinkedList"
    /\ Len(S) = 3 /\ S[1] # S[3]
    /\ obs.out = Reversed(S)

\* C14: (v in cls(S)) terminates and is true iff some element of S equals v:
\* true for every element of S, head and tail included, false for a value
\* equal to none of them, false on the empty list.
Thm_C14 ==
    (obs.op = "contains" /\ trace = <<>>) =>
        /\ obs.done
        /\ ((obs.n = 1) <=> (\E i \in 1..Len(S) : S[i] = obs.arg))

Wit_C14 ==
    /\ obs.op = "contains" /\ trace = <<>>
    /\ cls = "CircularLinkedList"
    /\ Len(S) = 3 /\ S[1] # S[3] /\ S[2] # S[3] /\ obs.arg = S[3]
    /\ obs.n = 1


\* The node n = cls.from_iterable(S) the chain was built with.
n0 == from_iterable(cls, S).node

\* C15: for each of the four node classes of nodes.py, from_iterable of an
\* empty input returns None, and for every nonempty S the node n =
\* from_iterable(S) has list(n) = S in order and len(n) = len(S), n being the
\* head for the linear classes and the tail for the circular ones.
Thm_C15 ==
    trace = <<>> =>
        /\ (S = <<>>) <=> (nd = None)
        /\ obs.op = "list" =>
               /\ obs.done
               /\ obs.out = S
               /\ cls \in LinearNodes => nd = obs.nodes[1]
               /\ cls \in CircularNodes => nd = Last(obs.nodes)
        /\ obs.op = "len" => obs.done /\ obs.n = Len(S)

Wit_C15 ==
    /\ trace = <<>> /\ obs.op = "list" /\ cls = "CircularLinkedNode"
    /\ Len(S) >= 2 /\ S[1] # S[2]
    /\ obs.out = S /\ nd = Last(obs.nodes)

\* C16: appendleft(x) on n = from_iterable(S), S nonempty: LinkedNode and
\* DoublyLinkedNode return a newly created node (not n) that is the new head,
\* CircularLinkedNode and CircularDoublyLinkedNode return n itself, and in all
\* four classes iterating the returned node yields x followed by S in order.
Thm_C16 ==
    (Len(trace) = 1 /\ trace[1].op = "appendleft") =>
        /\ trace[1].err = "ok"
        /\ cls \in LinearNodes =>
               /\ nd \notin 1..Len(S)
               /\ heap[nd].next = n0
               /\ cls = "DoublyLinkedNode" => heap[nd].last = None /\ heap[n0].last = nd
        /\ cls \in CircularNodes => nd = n0
        /\ obs.op = "list" => obs.done /\ obs.out = <<trace[1].arg>> \o S

Wit_C16 ==
    /\ Len(trace) = 1 /\ trace[1].op = "appendleft" /\ obs.op = "list"
    /\ cls = "CircularLinkedNode" /\ Len(S) >= 2 /\ nd = n0
    /\ obs.out = <<trace[1].arg>> \o S

\* C17: for DoublyLinkedNode and CircularDoublyLinkedNode of nodes.py and every
\* nonempty S, with node = from_iterable(S).appendleft(x),
\* list(reversed(node)) equals the reverse of [x] + S.
Cex_C17 ==
    (Len(trace) = 1 /\ trace[1].op = "appendleft" /\ obs.op = "reversed") =>
        /\ obs.done
        /\ obs.out = Reversed(<<trace[1].arg>> \o S)

\* C19: for each of the four node classes of nodes.py and every nonempty S,
\* repeating node, value = node.popleft() from node = from_iterable(S) while
\* node is not None returns the values of S in order in exactly len(S) calls;
\* the call on the last remaining node returns (None, that node's value).
Thm_C19 ==
    (trace # <<>> /\ \A i \in 1..Len(trace) : trace[i].op = "popleft") =>
        /\ Len(trace) <= Len(S)
        /\ \A i \in 1..Len(trace) : trace[i].err = "ok"
        /\ Returns = SubSeq(S, 1, Len(trace))
        /\ (nd = None) <=> (Len(trace) = Len(S))

Wit_C19 ==
    /\ Len(trace) = 2 /\ trace[1].op = "popleft" /\ trace[2].op = "popleft"
    /\ cls = "DoublyLinkedNode" /\ Len(S) = 2 /\ S[1] # S[2]
    /\ Returns = S /\ nd = None

\* C18: in graph_examples/__init__.py, for a CircularDoublyLinkedNode ring built
\* by from_iterable(S), S nonempty: after appendleft(x) or append(x), reversed()
\* from the returned node terminates and yields exactly the reverse of what
\* iterating that node yields, i.e. n.next.last is n and n.last.next is n for
\* every node n of the ring.
Cex_C18 ==
    (/\ cls = "graph_examples.CircularDoublyLinkedNode"
     /\ Len(trace) = 1
     /\ trace[1].op \in {"append", "appendleft"}) =>
        /\ \A n \in 1..Len(heap) :
               heap[heap[n].next].last = n /\ heap[heap[n].last].next = n
        /\ obs.op = "reversed" =>
               /\ obs.done
               /\ obs.out = Reversed(node_list(cls, heap, nd, "iter").out)

\* C20: in graph_examples/__init__.py, DoublyLinkedNode.popleft on the last
\* remaining node (next is None) returns (None, that node's value) without
\* raising, so draining a chain built from a nonempty S by repeated popleft
\* yields S in order and ends with None.
Cex_C20 ==
    (/\ cls = "graph_examples.DoublyLinkedNode"
     /\ trace # <<>>
     /\ \A i \in 1..Len(trace) : trace[i].op = "popleft") =>
        /\ \A i \in 1..Len(trace) : trace[i].err = "ok"
        /\ Returns = SubSeq(S, 1, Len(trace))
        /\ (nd = None) <=> (Len(trace) = Len(S))

\* C21: for each of the four node classes of nodes.py and every nonempty S
\* (singleton included), with n = from_iterable(S), iterating the node returned
\* by n.reverse() terminates and yields the values of S in reverse order.
Thm_C21 ==
    (Len(trace) = 1 /\ trace[1].op = "reverse") =>
        /\ trace[1].err = "ok"
        /\ nd # None
        /\ obs.op = "list" => obs.done /\ obs.out = Reversed(S)

Wit_C21 ==
    /\ Len(trace) = 1 /\ trace[1].op = "reverse" /\ obs.op = "list"
    /\ cls = "CircularLinkedNode" /\ Len(S) >= 2 /\ S[1] # S[2]
    /\ obs.out = Reversed(S)

\* next and last agree on every node iterated from n.
Symmetric(h, nodes) ==
    \A a \in Range(nodes) :
        /\ h[a].next # None => h[h[a].next].last = a
        /\ h[a].last # None => h[h[a].last].next = a

\* C22: for CircularDoublyLinkedNode of nodes.py and every nonempty S, with
\* n = from_iterable(S), n.append(x) returns a newly created node, the new
\* tail, and iterating that node yields S in order followed by x.
Thm_C22 ==
    (cls = "CircularDoublyLinkedNode" /\ Len(trace) = 1 /\ trace[1].op = "append") =>
        /\ trace[1].err = "ok"
        /\ nd \notin 0..Len(S)
        /\ heap[n0].next = nd /\ heap[nd].last = n0
        /\ obs.op = "list" =>
               /\ obs.done
               /\ obs.out = Append(S, trace[1].arg)
               /\ Last(obs.nodes) = nd

Wit_C22 ==
    /\ cls = "CircularDoublyLinkedNode" /\ Len(trace) = 1 /\ trace[1].op = "append"
    /\ obs.op = "list" /\ Len(S) >= 2 /\ trace[1].arg # S[1]
    /\ obs.out = Append(S, trace[1].arg)

\* C23: for CircularDoublyLinkedNode of nodes.py and every nonempty S,
\* repeating node, value = node.pop() from node = from_iterable(S) while node
\* is not None returns the values of S in reverse order in exactly len(S)
\* calls, each returned node being the new tail of a ring that still has
\* next/last symmetry, and the last call returns None.
Thm_C23 ==
    (/\ cls = "CircularDoublyLinkedNode"
     /\ trace # <<>>
     /\ \A i \in 1..Len(trace) : trace[i].op = "pop") =>
        /\ Len(trace) <= Len(S)
        /\ \A i \in 1..Len(trace) : trace[i].err = "ok"
        /\ Returns = SubSeq(Reversed(S), 1, Len(trace))
        /\ (nd = None) <=> (Len(trace) = Len(S))
        /\ nd # None =>
               LET r == node_list(cls, heap, nd, "iter")
               IN  /\ r.done
                   /\ r.out = SubSeq(S, 1, Len(S) - Len(trace))
                   /\ Last(r.nodes) = nd
                   /\ Symmetric(heap, r.nodes)
                   /\ \A a \in Range(r.nodes) : heap[a].next # None /\ heap[a].last # None

Wit_C23 ==
    /\ cls = "CircularDoublyLinkedNode"
    /\ Len(trace) = 2 /\ trace[1].op = "pop" /\ trace[2].op = "pop"
    /\ Len(S) = 3 /\ S[2] # S[3]
    /\ Returns = <<S[3], S[2]>> /\ nd # None

\* C24 as claimed: for DoublyLinkedNode of nodes.py, every nonempty S and x,
\* with n = from_iterable(S), list(n.append(x)) equals S in order followed by
\* x, and no element of S is lost from the chain.
Cex_C24 ==
    (cls = "DoublyLinkedNode" /\ Len(trace) = 1 /\ trace[1].op = "append") =>
        /\ obs.op = "list" => obs.done /\ obs.out = Append(S, trace[1].arg)
        /\ Len(node_list(cls, heap, n0, "iter").out) > Len(S)

\* C24 as amended: with n = from_iterable(S), n.tail.append(x) returns a newly
\* created node that is the new tail; list(n) is then S in order followed by x
\* (no element of S is lost) and list(reversed(returned node)) is its reverse.
Thm_C24 ==
    (cls = "DoublyLinkedNode" /\ Len(trace) = 1 /\ trace[1].op = "tail.append") =>
        /\ trace[1].err = "ok"
        /\ nd \notin 0..Len(S)
        /\ heap[nd].next = None
        /\ LET r == node_list(cls, heap, n0, "iter")
           IN  r.done /\ r.out = Append(S, trace[1].arg) /\ Last(r.nodes) = nd
        /\ obs.op = "reversed" => obs.done /\ obs.out = Reversed(Append(S, trace[1].arg))

Wit_C24 ==
    /\ cls = "DoublyLinkedNode" /\ Len(trace) = 1 /\ trace[1].op = "tail.append"
    /\ obs.op = "reversed" /\ Len(S) >= 2 /\ S[1] # S[2]
    /\ obs.out = Reversed(Append(S, trace[1].arg))

RECURSIVE Follow(_, _, _)
Follow(h, a, k) == IF k = 0 \/ a = None THEN a ELSE Follow(h, h[a].next, k - 1)

Thm_C27 ==
    cls \in Doubly =>
        LET r == list(cls, li)
            rr == list_reversed(cls, li)
        IN  /\ r.done /\ rr.done
            /\ Symmetric(heap, r.nodes \o rr.nodes)
            /\ rr.out = Reversed(r.out)
            /\ rr.nodes = Reversed(r.nodes)

Wit_C27 ==
    /\ cls = "CircularDoublyLinkedList" /\ Len(trace) = 3
    /\ trace[1].op = "reverse" /\ trace[2].op = "appendleft" /\ trace[3].op = "pop"
    /\ trace[3].err = "ok" /\ Len(list(cls, li).out) >= 2

\* C28: for CircularLinkedList and CircularDoublyLinkedList, after any finite
\* sequence of mutating calls: if the list is nonempty then every reachable
\* node has a non-None next, and following next from tail returns to tail after
\* exactly len(li) steps without visiting any node twice (a single node is
\* self-linked); if it is empty then tail is None.
Thm_C28 ==
    cls \in Circular =>
        LET n == len(cls, li)
        IN  IF bool(cls, li)
            THEN /\ tail # None
                 /\ n.done /\ n.ret >= 1
                 /\ \A k \in 0..n.ret : Follow(heap, tail, k) # None
                 /\ Follow(heap, tail, n.ret) = tail
                 /\ \A j, k \in 0..(n.ret - 1) :
                        j # k => Follow(heap, tail, j) # Follow(heap, tail, k)
                 /\ n.ret = 1 => heap[tail].next = tail
            ELSE tail = None /\ n.done /\ n.ret = 0

Wit_C28 ==
    /\ cls = "CircularLinkedList" /\ Len(trace) = 3
    /\ trace[1].op = "appendleft" /\ trace[2].op = "reverse" /\ trace[3].op = "popleft"
    /\ trace[3].err = "ok" /\ len(cls, li).ret >= 2

\* C29: for LinkedList and DoublyLinkedList, after any finite sequence of
\* mutating calls: following next from head reaches None after exactly len(li)
\* steps and never visits a node twice (the chain is acyclic), so len,
\* iteration and membership always terminate.
Thm_C29 ==
    cls \in Linear =>
        LET n == len(cls, li)
        IN  /\ n.done
            /\ list(cls, li).done
            /\ \A v \in Values \cup {Absent} : contains(cls, li, v).done
            /\ Follow(heap, head, n.ret) = None
            /\ \A k \in 0..(n.ret - 1) : Follow(heap, head, k) # None
            /\ \A j, k \in 0..(n.ret - 1) :
                   j # k => Follow(heap, head, j) # Follow(heap, head, k)

Wit_C29 ==
    /\ cls = "LinkedList" /\ Len(trace) = 3
    /\ trace[1].op = "reverse" /\ trace[2].op = "appendleft" /\ trace[3].op = "reverse"
    /\ len(cls, li).ret >= 3

\* The nodes reachable from the nodes of set by next and last.
RECURSIVE Reach(_, _)
Reach(h, set) ==
    LET more == (set \cup {h[a].next : a \in set} \cup {h[a].last : a \in set}) \ {None}
    IN  IF more = set THEN set ELSE Reach(h, more)

\* C30: reverse (of the list classes and of the node classes, every topology)
\* is in place: it creates no node, the nodes reachable from the structure
\* after reverse are exactly those reachable before, and every node keeps its
\* value; only next / last links and the list's head / tail references change.
Thm_C30 ==
    [][(Len(trace') = Len(trace) + 1 /\ Last(trace').op = "reverse") =>
           /\ Len(heap') = Len(heap)
           /\ \A a \in 1..Len(heap) : heap'[a].value = heap[a].value
           /\ Reach(heap', {head', tail', nd'} \ {None}) = Reach(heap, {head, tail, nd} \ {None})
           /\ cls' = cls /\ S' = S]_vars

Wit_C30 ==
    /\ cls = "CircularLinkedNode" /\ Len(trace) = 2
    /\ trace[1].op = "appendleft" /\ trace[2].op = "reverse" /\ trace[2].err = "ok"
    /\ Len(S) >= 2 /\ Len(heap) = Len(S) + 1
    /\ Reach(heap, {nd}) = 1..Len(heap)

\* The abstract sequence (deque) after the first k logged calls, starting
\* from S: appendleft prepends, append appends, popleft / pop drop the first /
\* last element when there is one, reverse reverses.
RECURSIVE Deque(_)
Deque(k) ==
    IF k = 0 THEN S
    ELSE LET m == Deque(k - 1)
             c == trace[k]
         IN  CASE c.op = "appendleft" -> <<c.arg>> \o m
               [] c.op = "append" -> Append(m, c.arg)
               [] c.op = "popleft" -> IF m = <<>> THEN m ELSE Tail(m)
               [] c.op = "pop" -> IF m = <<>> THEN m ELSE SubSeq(m, 1, Len(m) - 1)
               [] c.op = "reverse" -> Reversed(m)
               [] OTHER -> m

\* C31: each list class refines the abstract deque: after any logged
\* interleaving of appendleft, append, popleft, pop and reverse on cls(S),
\* iterating the list yields exactly the deque's sequence, every call other
\* than a pop succeeds, a popleft / pop raises IndexError exactly when the
\* deque before it was empty, and otherwise returns the deque's first / last
\* element.
Thm_C31 ==
    /\ list(cls, li).done
    /\ list(cls, li).out = Deque(Len(trace))
    /\ \A k \in 1..Len(trace) :
          LET m == Deque(k - 1)
              c == trace[k]
          IN  IF c.op \in {"popleft", "pop"}
              THEN /\ (c.err = "IndexError") <=> (m = <<>>)
                   /\ m # <<>> =>
                        /\ c.err = "ok"
                        /\ c.ret = IF c.op = "popleft" THEN Head(m) ELSE Last(m)
              ELSE c.err = "ok"

Wit_C31 ==
    /\ cls = "CircularDoublyLinkedList" /\ Len(S) = 3 /\ S[1] # S[3]
    /\ Len(trace) = 3
    /\ trace[1].op = "reverse" /\ trace[2].op = "popleft" /\ trace[3].op = "append"
    /\ trace[2].ret = S[3] /\ trace[3].arg # S[1]
    /\ list(cls, li).out = <<S[2], S[1], trace[3].arg>>

\* An interleaved popleft (one made between two steps of the iteration) that
\* left the list nonempty: the first successful one, on a list of two or more.
Unlinked == Len(S) >= 2 /\ \E k \in 1..Len(trace) : trace[k].op = "popleft" /\ trace[k].err = "ok"

\* C32 as claimed: an iteration over a circular list that has been started and
\* partially consumed returns after finitely many further steps, whatever
\* popleft calls are made between its steps.
Cex_C32 == (gen.kind = "iter" /\ gen.g.pc = "yield") ~> (gen.g.pc = "done")

\* C32: an iteration over a circular list that has been started and partially
\* consumed returns after finitely many further steps exactly when no popleft
\* made between its steps left the list nonempty: it returns when every
\* interleaved popleft found the list empty or emptied it, and never returns
\* once one removed the head of a list of two or more elements.
Thm_C32 ==
    /\ (gen.kind = "iter" /\ gen.g.pc = "yield") ~> (gen.g.pc = "done" \/ Unlinked)
    /\ [](Unlinked => gen.g.pc # "done")

Wit_C32 ==
    /\ cls = "CircularLinkedList" /\ Len(S) = 1
    /\ gen.kind = "iter" /\ gen.g.pc = "done" /\ gen.out = S
    /\ Len(trace) = 2 /\ trace[1].op = "popleft" /\ trace[1].err = "ok"
    /\ trace[2].err = "IndexError"

\* C33: reading head on a circular list never raises: on a list whose tail is
\* None it returns None, and on a nonempty list it returns tail.next.
Cex_C33 ==
    obs.op = "head" =>
        /\ obs.done
        /\ obs.nodes = <<IF tail = None THEN None ELSE heap[tail].next>>

====
